---- MODULE Spec2Model ----
(***************************************************************************)
(* Model of the chart rendering worker (src/src/gpu-worker.ts): the chart  *)
(* registry, the per-chart GPU resources, the message handler and the      *)
(* frame scheduler.                                                        *)
(*                                                                         *)
(* Conventions                                                             *)
(*  - GPU buffers and textures are handles (positive integers); 0 is null. *)
(*    `live` is the set of handles created and not yet destroyed.  A       *)
(*    handle that is neither live nor referenced by any chart may be       *)
(*    handed out again, a handle that is live or still referenced never.   *)
(*  - A texture view is identified with the handle of its texture; a bind  *)
(*    group is the tuple of the handles it binds, << >> is null.           *)
(*  - Zoom factors are counted in tenths (10 is a zoom of 1.0).            *)
(*  - The message handler runs to completion: one action per command.      *)
(***************************************************************************)
EXTENDS Integers, Sequences, FiniteSets, TLC

\* ------------------------------------------------------------------ bounds
MaxCmds == 1
MaxInits == 2
MaxLen == 3
MaxCreates == 3

\* --------------------------------------------------------------- constants
ZoomMin == 1
ZoomMax == 10000000
PointSizeMin == 1
PointSizeMax == 8
DefaultPointSize == 3
DefaultMaxSamples == 100
DefaultWidth == 800
DefaultHeight == 400
TextureLimit == 8192
UnitZoom == 10
COMPUTE_WG == 256
MAX_WG_DIM == 65535

\* ------------------------------------------------------------------ inputs
ChartIds == {"chart-1", "chart-2"}
ChartTypes == {"scatter", "line", "box"}
Bools == {TRUE, FALSE}
NoColor == << >>
Undefined == <<-1>>
Colors == {<<1, 0, 0>>}
CanvasSizes == {<<4, 3>>}
SizeInputs == {<<0, 5>>, <<4, 3>>, <<8, 6>>}
PointSizeInputs == {9}
MaxSamplesInputs == {-1}
ViewInputs == {[panX |-> 1, panY |-> 2, zoomX |-> 0, zoomY |-> 20000000]}
SeriesA == [label |-> "s1", n |-> 3]
SeriesB == [label |-> "s2", n |-> 0]
SeriesC == [label |-> "s3", n |-> 2]
BoundsA == [minX |-> 0, maxX |-> 10, minY |-> 0, maxY |-> 5]
BoundsB == [minX |-> 2, maxX |-> 2, minY |-> 0, maxY |-> 5]
UpdateInputs ==
  { <<(<< >>), BoundsA>>, <<(<<SeriesA>>), BoundsB>>,
    <<(<<SeriesB, SeriesA>>), BoundsA>> }
FailPoints == {0, 1, 2, 3}
RegisterFailures == {"none", "context", "configure", "uniform", "texture"}
UnknownTypes == {"ping"}
UpdateA == <<(<<SeriesA>>), BoundsA>>
UpdateB == <<(<<SeriesB, SeriesA>>), BoundsA>>
UpdateC == <<(<<SeriesA, SeriesC>>), BoundsA>>
NoUpdate == << >>
\* the contents of the storage buffers of a series: any X array, sorted or
\* not, of at most MaxLen samples, and a Y array of the same length
XVals == {0, 1, 3}
YVals == {0, 1, 2}
\* the values lowerBound is asked for
Queries == {0, 1, 2, 3, 4}
\* the viewport windows <<viewMinX, viewMaxX, viewMinY, viewMaxY>> of a
\* Parameter Block: the whole data, a zoomed window, a window to the right
\* of the data, and windows of no width or no height
Windows == { <<0, 4, 0, 4>>, <<0, 2, 0, 4>>, <<5, 7, 0, 2>>,
             <<2, 2, 0, 4>>, <<0, 4, 1, 1>> }
\* the scatter series the throttle sizes: <<visibleCount, chart.pointSize,
\* chart.width, chart.height>>
Densities == { <<2000000, 4, 800, 400>>, <<100, 8, 800, 400>>,
               <<100, 4, 4, 3>>, <<3, 4, 4, 3>>, <<3, 1, 4, 3>>,
               <<0, 4, 4, 3>> }
\* a series of five samples at one place
LongSeries == { << <<1, 1, 1, 1, 1>>, <<2, 2, 2, 2, 2>> >> }
\* the point-stamp dispatches: the size <<width, height>> of the chart and
\* the windows (one with samples above it, one of no width)
ScatterSizes == { <<4, 2>>, <<1, 1>> }
ScatterWindows == { <<0, 4, 0, 4>>, <<0, 4, 0 - 3, 1>>, <<1, 3, 0, 4>>,
                    <<2, 2, 0, 4>> }
\* the chart widths, in columns, and the caps maxSamplesPerPixel of the
\* line and of the box dispatches
Widths == {1, 4}
LineCaps == {1, 2, 3}
BoxCaps == {0, 1, 2}
Boots ==
  { << >>,
    << <<"chart-1", "scatter", UpdateA, TRUE>> >>,
    << <<"chart-1", "line", UpdateB, TRUE>>, <<"chart-2", "box", UpdateA, TRUE>> >>,
    << <<"chart-1", "box", NoUpdate, TRUE>>, <<"chart-2", "scatter", UpdateB, FALSE>> >>,
    << <<"chart-1", "scatter", UpdateA, FALSE>>, <<"chart-2", "line", UpdateA, FALSE>> >>,
    << <<"chart-1", "line", UpdateC, TRUE>> >> }
\* boots whose charts were then rendered by the callback and hidden
RestedBoots == { << <<"chart-1", "scatter", UpdateA, TRUE>> >> }

VARIABLES
  env,             \* "ok", "nogpu" (no navigator.gpu) or "noadapter"
  device,          \* 0 while `device` is undefined, else the device's number
  inits,           \* init() calls suspended at an await: "adapter", "device"
  initCount,       \* init commands received, of the MaxInits handled
  statsInterval,   \* the interval timers installed (0: statsInterval is null)
  frameCount,
  isDark,
  charts,          \* the registry: a function from the registered ids
  surfaces,        \* per id, the state of the surface supplied last
  live,            \* handles of the buffers and textures not destroyed
  renderScheduled,
  rafPending,      \* animation-frame callbacks requested and not yet run
  last,            \* the step taken last: [type, id, arg]
  emitted,         \* the events posted by the last step
  submitted,       \* the charts whose commands the last step submitted
  cmds,            \* commands received so far
  storageX,        \* dataX: the X storage buffer bound to the kernels
  storageY,        \* dataY: the Y storage buffer bound to the kernels
  invoked,         \* the kernel invoked last: its parameters and output
  manager          \* the ChartManager of the page and the plugin list

vars == <<env, device, inits, initCount, statsInterval, frameCount, isDark,
          charts, surfaces, live, renderScheduled, rafPending,
          last, emitted, submitted, cmds, storageX, storageY, invoked,
          manager>>
\* the variables of the shader kernels and of the page, which the host code
\* does not touch
kernelVars == <<storageX, storageY, invoked, manager>>

\* ----------------------------------------------------------------- helpers
Max(a, b) == IF a >= b THEN a ELSE b
Min(a, b) == IF a <= b THEN a ELSE b
Range(f) == {f[i] : i \in DOMAIN f}

Ev(t, id, data) == [type |-> t, id |-> id, data |-> data]
\* The record of a step: the command, a note `was` on the state it found,
\* and whether a callback was scheduled and which charts were dirty before.
Cmd(t, id, arg, was) ==
  [type |-> t, id |-> id, arg |-> arg, was |-> was,
   sched |-> renderScheduled,
   dirty |-> {k \in DOMAIN charts : charts[k].dirty}]

\* handles a series record refers to
SeriesRefs(s) == {s.dataX, s.dataY, s.lineBuffer, s.seriesIndexBuffer} \ {0}
\* handles a chart refers to (destroyed or not)
ChartRefs(c) ==
  ({c.uniformBuffer, c.seriesStorageBuffer, c.outputTexture} \ {0})
    \cup UNION {SeriesRefs(s) : s \in Range(c.series)}
\* the Series-Info buffer and the buffers of the series of a chart
SeriesOwned(c) ==
  ({c.seriesStorageBuffer} \ {0})
    \cup UNION {SeriesRefs(s) : s \in Range(c.series)}
AllRefs(chs) == UNION {ChartRefs(chs[id]) : id \in DOMAIN chs}

FreshHandle(used) ==
  CHOOSE h \in 1..(Cardinality(used) + 1) :
    h \notin used /\ \A k \in 1..(h - 1) : k \in used

\* The state a handler works on: the chart object it mutates, the live
\* handles, the handles that may not be handed out, the number of create
\* calls made, the create call that throws (0: none), whether an exception
\* is propagating, and the handle returned by the last create call.
Machine(c, lv, used, failAt) ==
  [c |-> c, live |-> lv, used |-> used, n |-> 0, failAt |-> failAt,
   thrown |-> FALSE, out |-> 0]

\* Then(e, F): F applied to the value of e (e is evaluated once).
Then(e, F(_)) == CHOOSE r \in {F(x) : x \in {e}} : TRUE

\* device.createBuffer / device.createTexture
Create(m) ==
  IF m.thrown THEN m
  ELSE IF m.n + 1 = m.failAt THEN [m EXCEPT !.n = @ + 1, !.thrown = TRUE]
  ELSE Then(FreshHandle(m.used), LAMBDA h :
         [m EXCEPT !.n = @ + 1, !.live = @ \cup {h}, !.used = @ \cup {h},
                   !.out = h])

\* buffer.destroy() / texture.destroy(), guarded by `if (x)`
Destroy(m, h) ==
  IF m.thrown \/ h = 0 THEN m ELSE [m EXCEPT !.live = @ \ {h}]

DestroyAll(m, hs) ==
  IF m.thrown THEN m ELSE [m EXCEPT !.live = @ \ hs]

\* ------------------------------------------------- resource lifecycle code
createChartResources(m) ==
  Then(Create(Destroy(m, m.c.outputTexture)), LAMBDA m2 :
    IF m2.thrown THEN m2
    ELSE [m2 EXCEPT !.c.outputTexture = m2.out,
                    !.c.texSize = <<Max(1, m.c.width), Max(1, m.c.height)>>,
                    !.c.outputTextureView = m2.out,
                    !.c.fxaaBindGroup = <<m.c.uniformBuffer, m2.out>>])

\* the scatter branch of buildSeriesBindGroups (gpu-worker.ts 527-546)
buildScatter(m, i) ==
  LET s == m.c.series[i]
      c == m.c
  IN Then(Create(Destroy(m, s.seriesIndexBuffer)), LAMBDA m1 :
       IF m1.thrown THEN m1
       ELSE [m1 EXCEPT
              !.c.series[i].seriesIndexBuffer = m1.out,
              !.c.series[i].computeBindGroup =
                 <<c.uniformBuffer, s.dataX, s.dataY, c.outputTextureView,
                   c.seriesStorageBuffer, m1.out>>])

\* the line buffer of a line/box series (gpu-worker.ts 554-558)
buildLineBuffer(m, i) ==
  Then(Create(Destroy(m, m.c.series[i].lineBuffer)), LAMBDA m1 :
    IF m1.thrown THEN m1
    ELSE [m1 EXCEPT !.c.series[i].lineBuffer = m1.out,
                    !.c.series[i].lineCols = m.c.width])

\* the series-index buffer of a box series (gpu-worker.ts 560-568)
buildIndexBuffer(m, i) ==
  IF m.thrown \/ m.c.type # "box" THEN m
  ELSE Then(Create(Destroy(m, m.c.series[i].seriesIndexBuffer)), LAMBDA m1 :
         IF m1.thrown THEN m1
         ELSE [m1 EXCEPT !.c.series[i].seriesIndexBuffer = m1.out])

\* the bind groups of a line/box series (gpu-worker.ts 570-597)
buildLineBindGroups(m, i) ==
  LET s == m.c.series[i]
      c == m.c
  IN IF m.thrown THEN m
     ELSE [m EXCEPT
            !.c.series[i].computeBindGroup =
               IF c.type = "box" /\ s.seriesIndexBuffer # 0
               THEN <<c.uniformBuffer, s.dataX, s.dataY, s.lineBuffer,
                      c.seriesStorageBuffer, s.seriesIndexBuffer>>
               ELSE <<c.uniformBuffer, s.dataX, s.dataY, s.lineBuffer,
                      c.seriesStorageBuffer>>,
            !.c.series[i].renderBindGroup =
               <<c.uniformBuffer, s.lineBuffer, c.seriesStorageBuffer>>]

\* buildSeriesBindGroups (gpu-worker.ts 520-599)
buildSeriesBindGroups(m, i) ==
  IF m.thrown \/ m.c.seriesStorageBuffer = 0 THEN m
  ELSE IF m.c.type = "scatter" THEN buildScatter(m, i)
  ELSE Then(buildLineBuffer(m, i), LAMBDA m1 :
       Then(buildIndexBuffer(m1, i), LAMBDA m2 : buildLineBindGroups(m2, i)))

RECURSIVE BuildAll(_, _)
\* for (let i = 0; i < chart.series.length; i++) buildSeriesBindGroups(...)
BuildAll(m, i) ==
  IF i > Len(m.c.series) THEN m
  ELSE Then(buildSeriesBindGroups(m, i), LAMBDA m1 : BuildAll(m1, i + 1))

\* The chart object createChart builds (gpu-worker.ts 449-475).
NewChart(type, pointSize, maxSamplesPerPixel, bgColor, uniformBuffer, w, h) ==
  [type |-> type, visible |-> TRUE, pointSize |-> pointSize,
   maxSamplesPerPixel |-> maxSamplesPerPixel, series |-> << >>,
   uniformBuffer |-> uniformBuffer, seriesStorageBuffer |-> 0,
   outputTexture |-> 0, texSize |-> <<0, 0>>, outputTextureView |-> 0,
   fxaaBindGroup |-> << >>, width |-> w, height |-> h,
   panX |-> 0, panY |-> 0, zoomX |-> UnitZoom, zoomY |-> UnitZoom,
   minX |-> 0, maxX |-> 1, minY |-> 0, maxY |-> 1,
   bgColor |-> bgColor, dirty |-> TRUE]

\* Math.min(Math.floor(Number(v) || dflt), limit)
CanvasDim(v, dflt) == Min(IF v = 0 THEN dflt ELSE v, TextureLimit)

\* The series object updateSeries pushes (gpu-worker.ts 684-698).
NewSeries(sd, dataX, dataY) ==
  [label |-> sd.label, dataX |-> dataX, dataY |-> dataY, lineBuffer |-> 0,
   lineCols |-> 0, seriesIndexBuffer |-> 0, pointCount |-> sd.n,
   visibleStart |-> 0, visibleCount |-> sd.n,
   computeBindGroup |-> << >>, renderBindGroup |-> << >>]

RECURSIVE CreateSeries(_, _, _)
\* for (const sd of seriesData) { createBuffer; createBuffer; push }
CreateSeries(m, L, i) ==
  IF i > Len(L) \/ m.thrown THEN m
  ELSE Then(Create(m), LAMBDA m1 :
       Then(Create(m1), LAMBDA m2 :
         IF m2.thrown THEN m2
         ELSE Then([m2 EXCEPT !.c.series =
                      Append(@, NewSeries(L[i], m1.out, m2.out))],
                   LAMBDA m3 : CreateSeries(m3, L, i + 1))))

\* the release of the old buffers without that of the Series-Info buffer
releaseSeriesKeepStorage(m, b) ==
  [DestroyAll(m, UNION {SeriesRefs(s) : s \in Range(m.c.series)})
     EXCEPT !.c.minX = b.minX, !.c.maxX = b.maxX,
            !.c.minY = b.minY, !.c.maxY = b.maxY,
            !.c.series = << >>]

\* updateSeries up to the release of the old buffers (gpu-worker.ts 646-661)
releaseSeries(m, b) ==
  Destroy(
    [DestroyAll(m, UNION {SeriesRefs(s) : s \in Range(m.c.series)})
       EXCEPT !.c.minX = b.minX, !.c.maxX = b.maxX,
              !.c.minY = b.minY, !.c.maxY = b.maxY,
              !.c.series = << >>],
    m.c.seriesStorageBuffer)

\* the Series-Info buffer of updateSeries (gpu-worker.ts 662-667)
createStorage(m, L) ==
  IF Len(L) = 0 THEN m
  ELSE Then(Create(m), LAMBDA m1 :
         IF m1.thrown THEN m1
         ELSE [m1 EXCEPT !.c.seriesStorageBuffer = m1.out])

\* The try block of updateSeries (gpu-worker.ts 645-707), up to the event.
updateSeriesBody(m, L, b) ==
  Then(releaseSeries(m, b), LAMBDA m1 :
  Then(createStorage(m1, L), LAMBDA m2 :
  Then(CreateSeries(m2, L, 1), LAMBDA m3 : BuildAll(m3, 1))))

\* resizeChart past its two early returns (gpu-worker.ts 605-614).
resizeChartBody(m, width, height) ==
  Then(createChartResources(
         [m EXCEPT !.c.width = width, !.c.height = height]),
       LAMBDA m1 : BuildAll(m1, 1))

\* createChart (gpu-worker.ts 412-488).  `fail` names the step that fails:
\* getContext returning null, configure throwing, the createBuffer of the
\* parameter buffer throwing (outside any try: the exception leaves the
\* handler), or createChartResources throwing.
createChart(chs, lv, surf, dev, id, canvas, type, pointSize, maxSamplesPerPixel, bgColor, fail) ==
  LET same == [charts |-> chs, live |-> lv, surface |-> surf,
               events |-> << >>, aborted |-> FALSE]
  IN IF dev = 0 \/ fail = "context"
       THEN [same EXCEPT !.events = <<Ev("error", id, "context")>>]
     ELSE IF fail = "configure"
       THEN [same EXCEPT !.events = <<Ev("error", id, "configure")>>,
                         !.surface = "unconfigured"]
     ELSE IF fail = "uniform"
       THEN [same EXCEPT !.surface = "configured", !.aborted = TRUE]
     ELSE
       Then(lv \cup AllRefs(chs), LAMBDA used :
       Then(FreshHandle(used), LAMBDA h :
       Then(createChartResources(
              Machine(NewChart(type, pointSize, maxSamplesPerPixel, bgColor, h,
                               CanvasDim(canvas[1], DefaultWidth),
                               CanvasDim(canvas[2], DefaultHeight)),
                      lv \cup {h}, used \cup {h},
                      IF fail = "texture" THEN 1 ELSE 0)),
            LAMBDA m :
         IF m.thrown
         THEN [same EXCEPT !.surface = "configured", !.live = m.live,
                           !.events = <<Ev("error", id, "resources")>>]
         ELSE [charts |-> (id :> m.c) @@ chs, live |-> m.live,
               surface |-> "configured",
               events |-> <<Ev("chart-registered", id, << >>)>>,
               aborted |-> FALSE])))

\* resizeChart without the early return on unchanged dimensions
resizeChartAlways(chs, lv, id, width, height, failAt) ==
  IF width <= 0 \/ height <= 0
    THEN [c |-> chs[id], live |-> lv, events |-> << >>]
  ELSE Then(resizeChartBody(
              Machine(chs[id], lv, lv \cup AllRefs(chs), failAt),
              width, height),
            LAMBDA m :
         [c |-> m.c, live |-> m.live,
          events |-> IF m.thrown THEN <<Ev("error", id, "resize")>>
                     ELSE << >>])

\* resizeChart (gpu-worker.ts 601-621): the chart after the call, the live
\* handles and the events posted.
resizeChart(chs, lv, id, width, height, failAt) ==
  IF width = chs[id].width /\ height = chs[id].height
    THEN [c |-> chs[id], live |-> lv, events |-> << >>]
  ELSE IF width <= 0 \/ height <= 0
    THEN [c |-> chs[id], live |-> lv, events |-> << >>]
  ELSE Then(resizeChartBody(
              Machine(chs[id], lv, lv \cup AllRefs(chs), failAt),
              width, height),
            LAMBDA m :
         [c |-> m.c, live |-> m.live,
          events |-> IF m.thrown THEN <<Ev("error", id, "resize")>>
                     ELSE << >>])

\* updateSeries (gpu-worker.ts 623-714) for a registered chart.
updateSeries(chs, lv, id, L, b, failAt) ==
  Then(updateSeriesBody(
         Machine(chs[id], lv, lv \cup AllRefs(chs), failAt), L, b),
       LAMBDA m :
    [c |-> m.c, live |-> m.live,
     events |-> IF m.thrown THEN <<Ev("error", id, "update-series")>>
                ELSE <<Ev("bounds-update", id, b)>>])

\* ---------------------------------------------------------- frame scheduler
\* scheduleRender without its `if (!renderScheduled)`
scheduleRenderUnguarded(call) ==
  /\ renderScheduled' = (renderScheduled \/ call)
  /\ rafPending' = IF call THEN rafPending + 1 ELSE rafPending

\* scheduleRender (gpu-worker.ts 861-866); `call` tells whether the handler
\* reaches the call.
scheduleRender(call) ==
  /\ renderScheduled' = (renderScheduled \/ call)
  /\ rafPending' = IF call /\ ~renderScheduled THEN rafPending + 1
                   ELSE rafPending

\* markDirty without the call of scheduleRender
markDirtyFlagOnly(chs, id) ==
  /\ charts' = [chs EXCEPT ![id].dirty = TRUE]
  /\ scheduleRender(FALSE)

\* markDirty that requests the callback whether or not the chart is visible
markDirtyAlwaysSchedule(chs, id) ==
  /\ charts' = [chs EXCEPT ![id].dirty = TRUE]
  /\ scheduleRender(TRUE)

\* markDirty setting the flag of every chart of the registry
markDirtyEvery(chs, id) ==
  /\ charts' = [k \in DOMAIN chs |-> [chs[k] EXCEPT !.dirty = TRUE]]
  /\ scheduleRender(chs[id].visible)

\* markDirty (gpu-worker.ts 868-871) on chart id of the registry chs
markDirty(chs, id) ==
  /\ charts' = [chs EXCEPT ![id].dirty = TRUE]
  /\ scheduleRender(chs[id].visible)

\* markAllDirty without `if (anyVisible) scheduleRender()`
markAllDirtyFlagsOnly(chs) ==
  /\ charts' = [id \in DOMAIN chs |-> [chs[id] EXCEPT !.dirty = TRUE]]
  /\ scheduleRender(FALSE)

\* markAllDirty (gpu-worker.ts 873-880)
markAllDirty(chs) ==
  /\ charts' = [id \in DOMAIN chs |-> [chs[id] EXCEPT !.dirty = TRUE]]
  /\ scheduleRender(\E id \in DOMAIN chs : chs[id].visible)

\* `const chart = charts.get(id); if (chart) markDirty(chart);`
markDirtyIfPresent(chs, id) ==
  IF id \in DOMAIN chs THEN markDirty(chs, id)
  ELSE charts' = chs /\ scheduleRender(FALSE)

Clamp(lo, hi, v) == Max(lo, Min(hi, v))

\* what every command step records
Record(cmd, evs) ==
  /\ cmds < MaxCmds
  /\ cmds' = cmds + 1
  /\ last' = cmd
  /\ emitted' = evs
  /\ submitted' = << >>
  /\ UNCHANGED kernelVars

InitVars == <<env, device, inits, initCount, statsInterval>>

Known(id) == id \in DOMAIN charts

\* ------------------------------------------------------ the message handler
\* startStats without `if (statsInterval !== null) return`
startStatsUnguarded(timers) == timers + 1

\* startStats (gpu-worker.ts 890-902): the timers installed after the call
startStats(timers) == IF timers # 0 THEN timers ELSE timers + 1

\* case "init" calling startStats() whatever init() returns
InitCmdStartsStats(dark) ==
  /\ initCount < MaxInits
  /\ initCount' = initCount + 1
  /\ isDark' = dark
  /\ statsInterval' = startStats(statsInterval)
  /\ IF device # 0
       THEN /\ emitted' = << >>
            /\ inits' = inits
     ELSE IF env = "nogpu"
       THEN /\ emitted' = <<Ev("error", "", "WebGPU not supported")>>
            /\ inits' = inits
     ELSE /\ inits' = Append(inits, "adapter")
          /\ emitted' = << >>
  /\ last' = Cmd("init", "", dark, << >>)
  /\ submitted' = << >>
  /\ UNCHANGED <<env, device, frameCount, charts, surfaces, live,
                 renderScheduled, rafPending, cmds>>
  /\ UNCHANGED kernelVars

\* case "init" (gpu-worker.ts 925-930) up to the first await of init()
InitCmd(dark) ==
  /\ initCount < MaxInits
  /\ initCount' = initCount + 1
  /\ isDark' = dark
  /\ IF device # 0
       THEN /\ statsInterval' = startStats(statsInterval)
            /\ emitted' = << >>
            /\ inits' = inits
     ELSE IF env = "nogpu"
       THEN /\ emitted' = <<Ev("error", "", "WebGPU not supported")>>
            /\ UNCHANGED <<statsInterval, inits>>
     ELSE /\ inits' = Append(inits, "adapter")
          /\ emitted' = << >>
          /\ UNCHANGED statsInterval
  /\ last' = Cmd("init", "", dark, << >>)
  /\ submitted' = << >>
  /\ UNCHANGED <<env, device, frameCount, charts, surfaces, live,
                 renderScheduled, rafPending, cmds>>
  /\ UNCHANGED kernelVars

RemoveAt(q, i) == SubSeq(q, 1, i - 1) \o SubSeq(q, i + 1, Len(q))

\* init() resumed after `await navigator.gpu.requestAdapter()` (189-193)
AdapterResolved(i) ==
  /\ i \in DOMAIN inits
  /\ inits[i] = "adapter"
  /\ IF env = "noadapter"
       THEN /\ inits' = RemoveAt(inits, i)
            /\ emitted' = <<Ev("error", "", "No GPU adapter found")>>
       ELSE /\ inits' = [inits EXCEPT ![i] = "device"]
            /\ emitted' = << >>
  /\ last' = Cmd("init-adapter", "", i, << >>)
  /\ submitted' = << >>
  /\ UNCHANGED <<env, device, initCount, statsInterval, frameCount, isDark,
                 charts, surfaces, live, renderScheduled, rafPending, cmds>>
  /\ UNCHANGED kernelVars

\* init() resumed after `await adapter.requestDevice()` (195-213), then
\* startStats() (890-902)
DeviceResolved(i) ==
  /\ i \in DOMAIN inits
  /\ inits[i] = "device"
  /\ inits' = RemoveAt(inits, i)
  /\ device' = device + 1
  /\ statsInterval' = startStats(statsInterval)
  /\ emitted' = <<Ev("gpu-ready", "", device + 1)>>
  /\ last' = Cmd("init-device", "", i, << >>)
  /\ submitted' = << >>
  /\ UNCHANGED <<env, initCount, frameCount, isDark, charts, surfaces, live,
                 renderScheduled, rafPending, cmds>>
  /\ UNCHANGED kernelVars

\* case "theme" (932-935)
Theme(dark) ==
  /\ Record(Cmd("theme", "", dark, << >>), << >>)
  /\ isDark' = dark
  /\ markAllDirty(charts)
  /\ UNCHANGED <<InitVars, frameCount, surfaces, live>>

\* case "register-chart" (937-950)
RegisterChart(id, canvas, type, fail) ==
  \E r \in {createChart(charts, live, surfaces[id], device, id, canvas, type,
                        DefaultPointSize, DefaultMaxSamples, NoColor, fail)} :
     /\ Record(Cmd("register-chart", id, <<type, fail>>, Known(id)), r.events)
     /\ live' = r.live
     /\ surfaces' = [surfaces EXCEPT ![id] = r.surface]
     /\ IF r.aborted
          THEN charts' = charts /\ scheduleRender(FALSE)
          ELSE markDirtyIfPresent(r.charts, id)
     /\ UNCHANGED <<InitVars, frameCount, isDark>>

\* unregister-chart destroying the buffers of the chart, not of its series
UnregisterChartShallow(id) ==
  /\ Record(Cmd("unregister-chart", id, << >>,
                IF Known(id) THEN <<TRUE, ChartRefs(charts[id])>>
                ELSE <<FALSE, {}>>),
            <<Ev("chart-unregistered", id, << >>)>>)
  /\ IF Known(id)
       THEN /\ surfaces' = [surfaces EXCEPT ![id] = "unconfigured"]
            /\ live' = live \ {charts[id].uniformBuffer,
                                charts[id].seriesStorageBuffer,
                                charts[id].outputTexture}
            /\ charts' = [k \in DOMAIN charts \ {id} |-> charts[k]]
       ELSE UNCHANGED <<surfaces, live, charts>>
  /\ UNCHANGED <<InitVars, frameCount, isDark, renderScheduled, rafPending>>

\* case "unregister-chart" (952-971)
UnregisterChart(id) ==
  /\ Record(Cmd("unregister-chart", id, << >>,
                IF Known(id) THEN <<TRUE, ChartRefs(charts[id])>>
                ELSE <<FALSE, {}>>),
            <<Ev("chart-unregistered", id, << >>)>>)
  /\ IF Known(id)
       THEN /\ surfaces' = [surfaces EXCEPT ![id] = "unconfigured"]
            /\ live' = live \ ChartRefs(charts[id])
            /\ charts' = [k \in DOMAIN charts \ {id} |-> charts[k]]
       ELSE UNCHANGED <<surfaces, live, charts>>
  /\ UNCHANGED <<InitVars, frameCount, isDark, renderScheduled, rafPending>>

\* case "set-point-size" (973-980)
SetPointSize(id, pointSize) ==
  /\ Record(Cmd("set-point-size", id, pointSize, Known(id)), << >>)
  /\ IF Known(id)
       THEN markDirty([charts EXCEPT ![id].pointSize =
                         Clamp(PointSizeMin, PointSizeMax, pointSize)], id)
       ELSE UNCHANGED <<charts, renderScheduled, rafPending>>
  /\ UNCHANGED <<InitVars, frameCount, isDark, surfaces, live>>

\* case "set-max-samples" (982-989)
SetMaxSamples(id, n) ==
  /\ Record(Cmd("set-max-samples", id, n, Known(id)), << >>)
  /\ IF Known(id)
       THEN markDirty([charts EXCEPT ![id].maxSamplesPerPixel = Max(0, n)], id)
       ELSE UNCHANGED <<charts, renderScheduled, rafPending>>
  /\ UNCHANGED <<InitVars, frameCount, isDark, surfaces, live>>

\* case "set-style" (991-998); Undefined stands for an absent bgColor
SetStyle(id, bgColor) ==
  /\ Record(Cmd("set-style", id, bgColor, Known(id)), << >>)
  /\ IF Known(id)
       THEN markDirty(IF bgColor # Undefined
                      THEN [charts EXCEPT ![id].bgColor = bgColor]
                      ELSE charts, id)
       ELSE UNCHANGED <<charts, renderScheduled, rafPending>>
  /\ UNCHANGED <<InitVars, frameCount, isDark, surfaces, live>>

\* case "update-series" (1000-1005)
UpdateSeries(id, L, b, failAt) ==
  IF Known(id)
  THEN \E r \in {updateSeries(charts, live, id, L, b, failAt)} :
          /\ Record(Cmd("update-series", id, <<L, b>>,
                        <<TRUE, SeriesOwned(charts[id])>>), r.events)
          /\ live' = r.live
          /\ markDirty([charts EXCEPT ![id] = r.c], id)
          /\ UNCHANGED <<InitVars, frameCount, isDark, surfaces>>
  ELSE /\ Record(Cmd("update-series", id, <<L, b>>, <<FALSE, {}>>),
                 <<Ev("error", id, "not found")>>)
       /\ UNCHANGED <<InitVars, frameCount, isDark, charts, surfaces, live,
                      renderScheduled, rafPending>>

\* set-visibility marking the chart dirty when it becomes visible
SetVisibilityMarking(id, visible) ==
  /\ Record(Cmd("set-visibility", id, visible,
                IF Known(id)
                THEN <<TRUE, charts[id].visible, charts[id].dirty>>
                ELSE <<FALSE, FALSE, FALSE>>), << >>)
  /\ IF Known(id)
       THEN IF visible /\ ~charts[id].visible
            THEN markDirty([charts EXCEPT ![id].visible = visible], id)
            ELSE /\ charts' = [charts EXCEPT ![id].visible = visible]
                 /\ scheduleRender(visible /\ charts[id].dirty)
       ELSE UNCHANGED <<charts, renderScheduled, rafPending>>
  /\ UNCHANGED <<InitVars, frameCount, isDark, surfaces, live>>

\* case "set-visibility" (1007-1014)
SetVisibility(id, visible) ==
  /\ Record(Cmd("set-visibility", id, visible,
                IF Known(id)
                THEN <<TRUE, charts[id].visible, charts[id].dirty>>
                ELSE <<FALSE, FALSE, FALSE>>), << >>)
  /\ IF Known(id)
       THEN /\ charts' = [charts EXCEPT ![id].visible = visible]
            /\ scheduleRender(visible /\ charts[id].dirty)
       ELSE UNCHANGED <<charts, renderScheduled, rafPending>>
  /\ UNCHANGED <<InitVars, frameCount, isDark, surfaces, live>>

\* case "view-transform" (1016-1026)
ViewTransform(id, v) ==
  /\ Record(Cmd("view-transform", id, v, Known(id)), << >>)
  /\ IF Known(id)
       THEN markDirty([charts EXCEPT
                         ![id].panX = v.panX,
                         ![id].panY = v.panY,
                         ![id].zoomX = Clamp(ZoomMin, ZoomMax, v.zoomX),
                         ![id].zoomY = Clamp(ZoomMin, ZoomMax, v.zoomY)], id)
       ELSE UNCHANGED <<charts, renderScheduled, rafPending>>
  /\ UNCHANGED <<InitVars, frameCount, isDark, surfaces, live>>

\* how a resize command relates to the chart it names
ResizeKind(id, w, h) ==
  IF ~(w > 0 /\ h > 0) THEN "invalid"
  ELSE IF ~Known(id) THEN "unknown"
  ELSE IF w = charts[id].width /\ h = charts[id].height THEN "same"
  ELSE "new"

\* the resize case without `data.width > 0 && data.height > 0`
ResizeUnguarded(id, w, h, failAt) ==
  IF Known(id)
  THEN \E r \in {resizeChart(charts, live, id, w, h, failAt)} :
          /\ Record(Cmd("resize", id, <<w, h>>, ResizeKind(id, w, h)),
                    r.events)
          /\ live' = r.live
          /\ markDirty([charts EXCEPT ![id] = r.c], id)
          /\ UNCHANGED <<InitVars, frameCount, isDark, surfaces>>
  ELSE /\ Record(Cmd("resize", id, <<w, h>>, ResizeKind(id, w, h)), << >>)
       /\ UNCHANGED <<InitVars, frameCount, isDark, charts, surfaces, live,
                      renderScheduled, rafPending>>

\* case "resize" (1028-1035)
Resize(id, w, h, failAt) ==
  IF Known(id) /\ w > 0 /\ h > 0
  THEN \E r \in {resizeChart(charts, live, id, w, h, failAt)} :
          /\ Record(Cmd("resize", id, <<w, h>>, ResizeKind(id, w, h)),
                    r.events)
          /\ live' = r.live
          /\ markDirty([charts EXCEPT ![id] = r.c], id)
          /\ UNCHANGED <<InitVars, frameCount, isDark, surfaces>>
  ELSE /\ Record(Cmd("resize", id, <<w, h>>, ResizeKind(id, w, h)), << >>)
       /\ UNCHANGED <<InitVars, frameCount, isDark, charts, surfaces, live,
                      renderScheduled, rafPending>>

\* the loop body assigning the zoom of the command, not the clamped one
batchApplyUnclamped(c, v, zX, zY) ==
  [c EXCEPT !.panX = v.panX, !.panY = v.panY, !.zoomX = v.zoomX,
            !.zoomY = v.zoomY, !.dirty = TRUE]

\* the body of the loop of case "batch-view-transform" (1041-1048)
batchApply(c, v, zX, zY) ==
  [c EXCEPT !.panX = v.panX, !.panY = v.panY, !.zoomX = zX, !.zoomY = zY,
            !.dirty = TRUE]

\* batch-view-transform asking for a callback as markDirty does
BatchViewTransformVisibleOnly(v, ids) ==
  LET zX == Clamp(ZoomMin, ZoomMax, v.zoomX)
      zY == Clamp(ZoomMin, ZoomMax, v.zoomY)
  IN /\ Record(Cmd("batch-view-transform", "", <<v, ids>>,
                   ids \cap DOMAIN charts), << >>)
     /\ charts' = [id \in DOMAIN charts |->
                     IF id \in ids THEN batchApply(charts[id], v, zX, zY)
                     ELSE charts[id]]
     /\ scheduleRender(\E id \in ids \cap DOMAIN charts : charts[id].visible)
     /\ UNCHANGED <<InitVars, frameCount, isDark, surfaces, live>>

\* case "batch-view-transform" (1037-1052); ids are the ids of transforms
BatchViewTransform(v, ids) ==
  LET zX == Clamp(ZoomMin, ZoomMax, v.zoomX)
      zY == Clamp(ZoomMin, ZoomMax, v.zoomY)
  IN /\ Record(Cmd("batch-view-transform", "", <<v, ids>>,
                   ids \cap DOMAIN charts), << >>)
     /\ charts' = [id \in DOMAIN charts |->
                     IF id \in ids THEN batchApply(charts[id], v, zX, zY)
                     ELSE charts[id]]
     /\ scheduleRender(TRUE)
     /\ UNCHANGED <<InitVars, frameCount, isDark, surfaces, live>>

\* case "sync-view" (1054-1062)
SyncView(v) ==
  /\ Record(Cmd("sync-view", "", v, DOMAIN charts), << >>)
  /\ markAllDirty([id \in DOMAIN charts |->
                     [charts[id] EXCEPT !.panX = v.panX, !.panY = v.panY,
                                        !.zoomX = v.zoomX, !.zoomY = v.zoomY]])
  /\ UNCHANGED <<InitVars, frameCount, isDark, surfaces, live>>

\* a type the switch has no case for (924, 1063)
UnknownCommand(type) ==
  /\ Record(Cmd(type, "", << >>, << >>), << >>)
  /\ UNCHANGED <<InitVars, frameCount, isDark, charts, surfaces, live,
                 renderScheduled, rafPending>>

\* ------------------------------------------------------- the frame callback
\* a / b rounded towards zero
CeilDivDown(a, b) == a \div b

\* a / b rounded up, as Math.ceil of the quotient
CeilDiv(a, b) == (a + b - 1) \div b

\* writeUniforms (gpu-worker.ts 102-147) for series i of chart c: the fields
\* of the Parameter Block the kernels read.  The window is kept exact: its
\* X extent rx / zoomX is the pair <<rx * UnitZoom, zoomX>> (zoom in tenths).
writeUniforms(c, i) ==
  [series |-> i,
   width |-> c.width, height |-> c.height,
   viewMinX |-> c.minX + c.panX * (c.maxX - c.minX),
   viewRangeX |-> <<(c.maxX - c.minX) * UnitZoom, c.zoomX>>,
   viewMinY |-> c.minY + c.panY * (c.maxY - c.minY),
   viewRangeY |-> <<(c.maxY - c.minY) * UnitZoom, c.zoomY>>,
   pointCount |-> c.series[i].pointCount,
   visibleStart |-> c.series[i].visibleStart,
   visibleCount |-> c.series[i].visibleCount,
   dispatchXCount |-> 0,
   maxSamplesPerPixel |-> c.maxSamplesPerPixel,
   seriesCount |-> Len(c.series)]

\* the loops without `if (series.pointCount === 0) continue`
seriesLoopAll(c, i) == [k \in 1..(Len(c.series) - i + 1) |-> k + i - 1]

RECURSIVE seriesLoop(_, _)
\* the indices the loops of renderChartWithFXAA do not `continue` on
\* (gpu-worker.ts 768-770, 823-833), from index i on, in order
seriesLoop(c, i) ==
  IF i > Len(c.series) THEN << >>
  ELSE (IF c.series[i].pointCount = 0 THEN << >> ELSE <<i>>)
       \o seriesLoop(c, i + 1)

\* the writes of the Parameter Block that renderChartWithFXAA issues on the
\* device queue while it records (gpu-worker.ts 751-753, 778, 786), in
\* the order of the calls
uniformWrites(c) ==
  LET idx == seriesLoop(c, 1)
  IN <<[offset |-> 0, data |-> writeUniforms(c, 1)]>> \o
     [k \in DOMAIN idx |->
        IF c.type = "scatter"
        THEN [offset |-> 72,
              data |-> [series |-> idx[k],
                        dispatchXCount |->
                          Min(CeilDiv(c.series[idx[k]].visibleCount, COMPUTE_WG),
                              MAX_WG_DIM) * COMPUTE_WG]]
        ELSE [offset |-> 0, data |-> writeUniforms(c, idx[k])]]

\* the grid <<x, y>> of workgroups of the aggregation pass of series i
\* (gpu-worker.ts 773-776, 783, 794)
dispatchWorkgroups(c, i) ==
  IF c.type = "scatter"
  THEN <<Min(CeilDiv(c.series[i].visibleCount, COMPUTE_WG), MAX_WG_DIM),
         CeilDiv(CeilDiv(c.series[i].visibleCount, COMPUTE_WG), MAX_WG_DIM)>>
  ELSE <<CeilDiv(c.width, COMPUTE_WG), 1>>

\* the passes renderChartWithFXAA records in its one encoder (755-855);
\* lineData is the aggregation buffer of the series and its length in
\* records, buffers the buffers the draws of the raster pass read
encodePasses(c) ==
  LET idx == seriesLoop(c, 1)
  IN <<[pass |-> "clear", target |-> c.outputTextureView, series |-> << >>]>>
     \o [k \in DOMAIN idx |->
           [pass |-> "compute", target |-> c.series[idx[k]].computeBindGroup,
            series |-> <<idx[k]>>,
            workgroups |-> dispatchWorkgroups(c, idx[k]),
            lineData |-> <<c.series[idx[k]].lineBuffer,
                           c.series[idx[k]].lineCols>>]]
     \o (IF c.type # "scatter"
         THEN <<[pass |-> "raster", target |-> c.outputTextureView,
                 series |-> seriesLoop(c, 1),
                 buffers |-> [k \in DOMAIN idx |->
                                c.series[idx[k]].renderBindGroup]]>>
         ELSE << >>)
     \o <<[pass |-> "fxaa", target |-> c.fxaaBindGroup, series |-> << >>]>>

RECURSIVE applyWrites(_, _, _)
\* the Parameter Block after the writes k.. of `writes` on content buf: a
\* write at offset 0 replaces the block, one at offset 72 dispatchXCount
applyWrites(buf, writes, k) ==
  IF k > Len(writes) THEN buf
  ELSE applyWrites(IF writes[k].offset = 0 THEN writes[k].data
                   ELSE [buf EXCEPT !.dispatchXCount =
                                       writes[k].data.dispatchXCount],
                   writes, k + 1)

\* The Parameter Block the passes of a submitted encoder read: queue writes
\* take effect in the order of the calls and device.queue.submit
\* (gpu-worker.ts 858) comes after all of them, so every pass of the
\* encoder runs on the content the last write left.
uniformAtSubmit(writes) == applyWrites(writes[1].data, writes, 2)

\* what a submitted frame of a chart is recorded as: one
\* device.queue.submit([encoder.finish()]) (gpu-worker.ts 858) with the
\* passes of the encoder and the queue writes that went before it
Frame(id, c) ==
  [id |-> id, type |-> c.type,
   view |-> <<c.panX, c.panY, c.zoomX, c.zoomY>>,
   target |-> c.outputTextureView,
   pointCounts |-> [i \in DOMAIN c.series |-> c.series[i].pointCount],
   writes |-> uniformWrites(c),
   passes |-> encodePasses(c)]

\* x <= 0 for the quotient x = q[1] / q[2] as JavaScript computes it with
\* q[2] >= 0: n / 0 is +Infinity, -Infinity or NaN (0 / 0, never <= 0)
NonPositive(q) == IF q[2] = 0 THEN q[1] < 0 ELSE q[1] <= 0

\* viewMinX >= viewMaxX or viewMinY >= viewMaxY for the window of block u
DegenerateWindow(u) == NonPositive(u.viewRangeX) \/ NonPositive(u.viewRangeY)

\* render returning early on a degenerate window
renderSkipDegenerate(c, canAcquire) ==
  /\ ~(c.width = 0 \/ c.height = 0)
  /\ ~(Len(c.series) = 0)
  /\ canAcquire
  /\ ~DegenerateWindow(writeUniforms(c, 1))

\* render (gpu-worker.ts 716-730): TRUE when renderChartWithFXAA is reached;
\* canAcquire tells whether ctx.getCurrentTexture() succeeds
render(c, canAcquire) ==
  ~(c.width = 0 \/ c.height = 0) /\ ~(Len(c.series) = 0) /\ canAcquire

\* the test of the loop of renderFrame (gpu-worker.ts 910)
due(c) == c.visible /\ c.dirty /\ c.width > 0

RECURSIVE FramesOf(_, _, _)
\* the frames submitted while iterating the charts ids of registry chs
FramesOf(chs, ids, texFail) ==
  IF ids = {} THEN << >>
  ELSE LET id == CHOOSE k \in ids : TRUE
           rest == FramesOf(chs, ids \ {id}, texFail)
       IN IF due(chs[id]) /\ render(chs[id], id \notin texFail)
          THEN <<Frame(id, chs[id])>> \o rest ELSE rest

\* renderFrame (gpu-worker.ts 904-918); texFail are the charts whose
\* surface yields no current texture in this callback
RenderFrame(texFail) ==
  /\ rafPending > 0
  /\ rafPending' = rafPending - 1
  /\ renderScheduled' = FALSE
  /\ submitted' = FramesOf(charts, DOMAIN charts, texFail)
  /\ charts' = [id \in DOMAIN charts |->
                  IF due(charts[id]) THEN [charts[id] EXCEPT !.dirty = FALSE]
                  ELSE charts[id]]
  /\ frameCount' = frameCount + 1
  /\ last' = Cmd("frame", "", texFail,
                 IF last.type = "frame" THEN [last EXCEPT !.was = << >>]
                 ELSE last)
  /\ emitted' = << >>
  /\ UNCHANGED <<InitVars, isDark, surfaces, live, cmds>>
  /\ UNCHANGED kernelVars

\* the charts for which the next callback calls ctx.getCurrentTexture()
Acquiring == {id \in DOMAIN charts : due(charts[id]) /\ render(charts[id], TRUE)}

CountActive == Cardinality({id \in DOMAIN charts :
                             charts[id].visible /\ charts[id].width > 0})

\* the timer callback installed by startStats (gpu-worker.ts 892-901)
StatsTick ==
  /\ statsInterval > 0
  /\ emitted' = <<Ev("stats", "",
                     [fps |-> frameCount, totalCharts |-> Cardinality(DOMAIN charts),
                      activeCharts |-> CountActive])>>
  /\ frameCount' = 0
  /\ last' = Cmd("stats", "", << >>, << >>)
  /\ submitted' = << >>
  /\ UNCHANGED <<InitVars, isDark, charts, surfaces, live, renderScheduled,
                 rafPending, cmds>>
  /\ UNCHANGED kernelVars

\* The page before ChartManager.init(): no worker, no chart, no plugin
\* (part_002 109, 153-155).  `returned` keeps the ids create has returned
\* and `op` the call made last: the messages it posted to the worker, the
\* plugins whose uninstall it called, and whether it returned normally.
\* view: { panX: 0, panY: 0, zoomX: 1, zoomY: 1 } (part_002 375)
UnitView == [panX |-> 0, panY |-> 0, zoomX |-> UnitZoom, zoomY |-> UnitZoom]
NoCall == [name |-> "none", id |-> << >>, arg |-> << >>, posted |-> << >>,
           uninstalled |-> {}, returned |-> FALSE]
Unstarted == [worker |-> FALSE, charts |-> << >>, chartIdCounter |-> 0,
              globalPlugins |-> << >>, returned |-> {}, op |-> NoCall,
              workers |-> << >>, inits |-> << >>, views |-> << >>,
              syncViews |-> FALSE, outbox |-> << >>, touch |-> << >>]

\* no kernel has run
Idle == [kernel |-> "none", u |-> << >>, out |-> << >>, prev |-> << >>]

\* ------------------------------------------------------------ specification
\* The engine as constructed (gpu-worker.ts 54-64).
Constructed ==
  /\ env \in {"ok", "nogpu", "noadapter"}
  /\ device = 0
  /\ statsInterval = 0
  /\ charts = << >>
  /\ surfaces = [id \in ChartIds |-> "none"]
  /\ live = {}
  /\ renderScheduled = FALSE
  /\ rafPending = 0

RECURSIVE Loaded(_, _, _)
\* The registry and the live handles after, for each
\* <<id, type, <<L, b>>, visible>> of `boot` in turn, register-chart,
\* update-series (unless NoUpdate) and set-visibility have been handled
\* with no failure.
Loaded(boot, chs, lv) ==
  IF boot = << >> THEN [charts |-> chs, live |-> lv]
  ELSE
    LET e == Head(boot)
    IN Then(createChart(chs, lv, "none", 1, e[1], <<4, 3>>, e[2],
                        DefaultPointSize, DefaultMaxSamples, NoColor, "none"),
            LAMBDA r :
       Then(IF e[3] = NoUpdate THEN [c |-> r.charts[e[1]], live |-> r.live]
            ELSE updateSeries(r.charts, r.live, e[1], e[3][1], e[3][2], 0),
            LAMBDA u :
         Loaded(Tail(boot),
                [r.charts EXCEPT ![e[1]] = [u.c EXCEPT !.visible = e[4]]],
                u.live)))

\* The engine after a successful init and the commands of `boot`, the
\* frame callback they requested still pending.
Booted(boot) ==
  \E r \in {Loaded(boot, << >>, {})} :
     /\ env = "ok"
     /\ device = 1
     /\ statsInterval = 1
     /\ charts = r.charts
     /\ surfaces = [id \in ChartIds |->
                      IF id \in DOMAIN r.charts THEN "configured" ELSE "none"]
     /\ live = r.live
     /\ renderScheduled = (boot # << >>)
     /\ rafPending = IF boot # << >> THEN 1 ELSE 0

\* The engine after Booted(boot), the frame callback, which clears the
\* dirty flags, the statistics timer, and set-visibility(id, false) for
\* every chart.
Rested(boot) ==
  \E r \in {Loaded(boot, << >>, {})} :
     /\ env = "ok"
     /\ device = 1
     /\ statsInterval = 1
     /\ charts = [id \in DOMAIN r.charts |->
                    [r.charts[id] EXCEPT !.dirty = FALSE, !.visible = FALSE]]
     /\ surfaces = [id \in ChartIds |->
                      IF id \in DOMAIN r.charts THEN "configured" ELSE "none"]
     /\ live = r.live
     /\ renderScheduled = FALSE
     /\ rafPending = 0

\* A booted engine has one init command left to receive.
Init ==
  /\ \/ Constructed /\ initCount = 0
     \/ (\E boot \in Boots : Booted(boot)) /\ initCount = MaxInits - 1
     \/ (\E boot \in RestedBoots : Rested(boot)) /\ initCount = MaxInits - 1
  /\ inits = << >>
  /\ frameCount = 0
  /\ isDark = FALSE
  /\ last = Cmd("start", "", << >>, << >>)
  /\ emitted = << >>
  /\ submitted = << >>
  /\ cmds = 0
  /\ storageX = << >>
  /\ storageY = << >>
  /\ invoked = Idle
  /\ manager = Unstarted

\* a command of the controller is handled
Command ==
  /\ cmds < MaxCmds
  /\ \/ \E dark \in Bools : Theme(dark)
     \/ \E id \in ChartIds, canvas \in CanvasSizes, type \in ChartTypes,
           fail \in RegisterFailures : RegisterChart(id, canvas, type, fail)
     \/ \E id \in ChartIds : UnregisterChart(id)
     \/ \E id \in ChartIds, v \in PointSizeInputs : SetPointSize(id, v)
     \/ \E id \in ChartIds, n \in MaxSamplesInputs : SetMaxSamples(id, n)
     \/ \E id \in ChartIds, bg \in Colors \cup {Undefined} : SetStyle(id, bg)
     \/ \E id \in ChartIds, u \in UpdateInputs, failAt \in FailPoints :
           UpdateSeries(id, u[1], u[2], failAt)
     \/ \E id \in ChartIds, visible \in Bools : SetVisibility(id, visible)
     \/ \E id \in ChartIds, v \in ViewInputs : ViewTransform(id, v)
     \/ \E id \in ChartIds, sz \in SizeInputs, failAt \in FailPoints :
           Resize(id, sz[1], sz[2], failAt)
     \/ \E v \in ViewInputs, ids \in SUBSET ChartIds :
           BatchViewTransform(v, ids)
     \/ \E v \in ViewInputs : SyncView(v)
     \/ \E type \in UnknownTypes : UnknownCommand(type)

Next ==
  \/ \E dark \in Bools : InitCmd(dark)
  \/ \E i \in 1..MaxInits : AdapterResolved(i)
  \/ \E i \in 1..MaxInits : DeviceResolved(i)
  \/ Command
  \/ \E texFail \in SUBSET Acquiring : RenderFrame(texFail)
  \/ StatsTick

Spec == Init /\ [][Next]_vars

\* ------------------------------------------------------------- the kernels
\* The WGSL kernels are functions of the Parameter Block u and of the
\* storage buffers bound to them.  They are computed here in exact integer
\* arithmetic: the X values are compared after scaling both sides by the
\* chart width, so that no division is rounded.

\* the X array is non-decreasing
Sorted(X) == \A i, j \in DOMAIN X : i <= j => X[i] <= X[j]

\* lowerBound with `<=` for `<` in the test of the loop
RECURSIVE lowerBoundLe(_, _, _, _)
lowerBoundLe(X, val, lo, hi) ==
  IF lo < hi
  THEN LET mid == (lo + hi) \div 2
       IN IF X[mid + 1] <= val THEN lowerBoundLe(X, val, mid + 1, hi)
          ELSE lowerBoundLe(X, val, lo, mid)
  ELSE lo

RECURSIVE lowerBoundLoop(_, _, _, _)
\* the loop of lowerBound (shared.ts 48-56) from the values lo, hi; the
\* WGSL array is indexed from 0, the sequence X from 1
lowerBoundLoop(X, val, lo, hi) ==
  IF lo < hi
  THEN LET mid == (lo + hi) \div 2
       IN IF X[mid + 1] < val THEN lowerBoundLoop(X, val, mid + 1, hi)
          ELSE lowerBoundLoop(X, val, lo, mid)
  ELSE lo

\* fn lowerBound(val: f32, count: u32) -> u32 (shared.ts 45-58) on dataX = X
lowerBound(X, val, count) == lowerBoundLoop(X, val, 0, count)

\* the Parameter Blocks the aggregation kernels are dispatched with; the
\* host writes the length of the X array as pointCount (writeUniforms 139)
Uniforms(Caps) ==
  { [width |-> w, viewMinX |-> v[1], viewMaxX |-> v[2], viewMinY |-> v[3],
     viewMaxY |-> v[4], pointCount |-> Len(storageX),
     maxSamplesPerPixel |-> cap, seriesCount |-> 1] :
      w \in Widths, v \in Windows, cap \in Caps }

\* the distance taken with its sign
AbsSigned(a) == a

Abs(a) == IF a < 0 THEN 0 - a ELSE a
MinOf(S) == CHOOSE m \in S : \A y \in S : m <= y
MaxOf(S) == CHOOSE m \in S : \A y \in S : m >= y

\* the record of a column without data (labels.ts 215, 222, 244); a
\* fraction a / b is the pair <<a, b>>
LineInvalid ==
  [screenX |-> <<0 - 1, 1>>, minScreenY |-> <<0 - 1, 1>>,
   maxScreenY |-> <<0 - 1, 1>>, valid |-> 0]

\* the scan without dataY[startIdx], the initial value of both extrema
sampledTail(startIdx, endIdx, maxSamples, limit) ==
  {endIdx - 1} \cup ((startIdx + 1)..(endIdx - 1))

\* the strided branch taken whatever the cap: only the first and the last
\* sample of the interval are read
sampledEnds(startIdx, endIdx, maxSamples, limit) == {startIdx, endIdx - 1}

\* the indices whose Y the aggregate branch reads (labels.ts 255-278):
\* dataY[startIdx] first; over the cap, maxSamples strided indices
\* startIdx + u32(f32(s) * stride) below endIdx and the last one, endIdx - 1;
\* else every index of the interval.  limit is the least maxSamples that
\* takes the strided branch (1 in the line kernel: `maxSamples > 1u`).
sampledIndices(startIdx, endIdx, maxSamples, limit) ==
  LET rangeCount == endIdx - startIdx
  IN IF maxSamples > limit /\ rangeCount > maxSamples
     THEN {startIdx, endIdx - 1} \cup
          { i \in { startIdx + ((s * (rangeCount - 1)) \div (maxSamples - 1)) :
                      s \in 0..(maxSamples - 1) } : i < endIdx }
     ELSE startIdx..(endIdx - 1)

\* screenY = 1.0 - (y - u.viewMinY) / viewRangeY (labels.ts 248-249,
\* 281-284) as a fraction over viewRangeY
screenY(u, y) ==
  <<(u.viewMaxY - u.viewMinY) - (y - u.viewMinY), u.viewMaxY - u.viewMinY>>

\* the aggregate record with the two screen values exchanged
lineAggregateSwapped(c, W, lo, hi) ==
  [screenX |-> <<2 * c + 1, 2 * W>>, minScreenY |-> lo, maxScreenY |-> hi,
   valid |-> 1]

\* LineData(screenX, minScreenY, maxScreenY, 1.0) of labels.ts 279-285:
\* lo and hi are the screen values 1 - norm of dataMinY and of dataMaxY
lineAggregate(c, W, lo, hi) ==
  [screenX |-> <<2 * c + 1, 2 * W>>, minScreenY |-> hi, maxScreenY |-> lo,
   valid |-> 1]

\* fn main of LINE_COMPUTE_SHADER (labels.ts 209-286) for the invocation
\* outputIdx = c < u.width, on dataX = X, dataY = Y.  X values are held
\* times W (pixelMinX, pixelMaxX) and times 2 W (centerX), so that
\* (relPx / u.width) * viewRangeX is exact.  The window being of integers,
\* `viewRange < 0.0001` is `viewRange <= 0`.
lineMain(u, X, Y, c) ==
  LET W == u.width
      count == u.pointCount
      viewRangeX == u.viewMaxX - u.viewMinX
      viewRangeY == u.viewMaxY - u.viewMinY
      XW == [i \in DOMAIN X |-> X[i] * W]
      pixelMinX == u.viewMinX * W + c * viewRangeX
      pixelMaxX == u.viewMinX * W + (c + 1) * viewRangeX
      centerX == pixelMinX + pixelMaxX
      Screen(y) == screenY(u, y)
  IN IF count = 0 THEN LineInvalid
     ELSE IF viewRangeX <= 0 \/ viewRangeY <= 0 THEN LineInvalid
     ELSE
       LET startIdx == lowerBound(XW, pixelMinX, count)
           endIdx == Min(lowerBound(XW, pixelMaxX, count), count)
       IN IF startIdx >= endIdx
          THEN LET bestIdx ==
                     IF startIdx > 0 /\ startIdx < count
                     THEN IF Abs(2 * XW[startIdx] - centerX)
                               < Abs(2 * XW[startIdx + 1] - centerX)
                          THEN startIdx - 1 ELSE startIdx
                     ELSE IF startIdx >= count /\ count > 0
                          THEN count - 1 ELSE startIdx
               IN IF bestIdx >= count THEN LineInvalid
                  ELSE [screenX |-> <<X[bestIdx + 1] - u.viewMinX, viewRangeX>>,
                        minScreenY |-> Screen(Y[bestIdx + 1]),
                        maxScreenY |-> Screen(Y[bestIdx + 1]),
                        valid |-> 1]
          ELSE LET read == { Y[i + 1] : i \in sampledIndices(startIdx, endIdx,
                                                 u.maxSamplesPerPixel, 1) }
               IN lineAggregate(c, W, Screen(MinOf(read)), Screen(MaxOf(read)))

\* BarData(0.0, 0.0, 0.0, 0.0) of box.ts 39, 46, 85: a bar of no width
BarInvalid ==
  [screenX |-> <<0, 1>>, minY |-> 0, maxY |-> 0, barWidth |-> <<0, 1>>]

\* fn barHalfWidth(idx, count) (box.ts 17-31) times 5 * max(1, seriesCount)
barHalfWidth(u, X, idx, count) ==
  LET S == Max(1, u.seriesCount)
  IN IF count <= 1 THEN 2 * (u.viewMaxX - u.viewMinX) * S
     ELSE IF idx = 0 THEN 2 * (X[2] - X[1])
     ELSE IF idx >= count - 1 THEN 2 * (X[count] - X[count - 1])
     ELSE 2 * Min(X[idx + 2] - X[idx + 1], X[idx + 1] - X[idx])

\* BarData(normX, minY, maxY, bw) of box.ts 88-95 and 122-130 for the bar
\* at X = bx of half width hw (times 5 S), the index of the series being 0:
\* normX over 5 S viewRangeX, bw over 100 S viewRangeX W
barRecord(u, bx, hw, lo, hi) ==
  LET S == Max(1, u.seriesCount)
      viewRangeX == u.viewMaxX - u.viewMinX
      onePixel == 100 * S * viewRangeX
      fullWidth == 40 * hw * u.width
      gapSize == Max(onePixel, 2 * hw * u.width)
  IN [screenX |-> <<5 * S * (bx - u.viewMinX) - (S - 1) * hw,
                    5 * S * viewRangeX>>,
      minY |-> lo, maxY |-> hi,
      barWidth |-> <<Max(fullWidth - gapSize, onePixel),
                     100 * S * viewRangeX * u.width>>]

\* the indices read by the aggregate branch of the box kernel (box.ts
\* 98-121), whose strided branch is taken for `maxSamples > 0u`: with
\* maxSamples = 1 the stride is a division by zero and the index
\* startIdx + u32(f32(0) * stride) is indeterminate, nan standing for it
boxSampledIndices(startIdx, endIdx, maxSamples, nan) ==
  IF maxSamples = 1 /\ endIdx - startIdx > 1
  THEN {startIdx, endIdx - 1} \cup { i \in {nan} : i < endIdx }
  ELSE sampledIndices(startIdx, endIdx, maxSamples, 0)

\* fn main of BOX_COMPUTE_SHADER (box.ts 33-131) for the invocation
\* outputIdx = c < u.width; X values times W as in lineMain, and times
\* 5 S W in the hit test against bx + hw, bx - hw
boxMain(u, X, Y, c, nan) ==
  LET W == u.width
      S == Max(1, u.seriesCount)
      count == u.pointCount
      viewRangeX == u.viewMaxX - u.viewMinX
      viewRangeY == u.viewMaxY - u.viewMinY
      XW == [i \in DOMAIN X |-> X[i] * W]
      pixelMinX == u.viewMinX * W + c * viewRangeX
      pixelMaxX == u.viewMinX * W + (c + 1) * viewRangeX
      centerX == pixelMinX + pixelMaxX
      hw(i) == barHalfWidth(u, X, i, count)
      Hit(i) == /\ 5 * S * pixelMinX < 5 * S * XW[i + 1] + hw(i) * W
                /\ 5 * S * pixelMaxX > 5 * S * XW[i + 1] - hw(i) * W
      d(i) == Abs(2 * XW[i + 1] - centerX)
  IN IF count = 0 THEN BarInvalid
     ELSE IF viewRangeX <= 0 \/ viewRangeY <= 0 THEN BarInvalid
     ELSE
       LET startIdx == lowerBound(XW, pixelMinX, count)
           endIdx == Min(lowerBound(XW, pixelMaxX, count), count)
       IN IF startIdx >= endIdx
          THEN LET hitCurr == startIdx < count /\ Hit(startIdx)
                   hitPrev == startIdx > 0 /\ Hit(startIdx - 1)
                   best == IF hitPrev /\ (~hitCurr \/ d(startIdx - 1) < d(startIdx))
                           THEN startIdx - 1 ELSE startIdx
               IN IF ~(hitCurr \/ hitPrev) THEN BarInvalid
                  ELSE barRecord(u, X[best + 1], hw(best),
                                 Y[best + 1], Y[best + 1])
          ELSE LET read == { Y[i + 1] : i \in boxSampledIndices(startIdx, endIdx,
                                                 u.maxSamplesPerPixel, nan) }
               IN barRecord(u, X[startIdx + 1], hw(startIdx),
                            MinOf(read), MaxOf(read))

\* a * Math.PI > b for integers a > 0, b >= 0.  The quotient b / a decides
\* outside [3, 4); inside, Math.PI is taken as 355/113, which decides as
\* Math.PI does for the operands used here.
PiExceeds(a, b) ==
  LET q == b \div a
  IN q < 3 \/ (q = 3 /\ 113 * (b % a) < 16 * a)

\* The square of a point size: num / den, or num / (den * Math.PI) with
\* pi = 1.
Squared(num, den, pi) == [num |-> num, den |-> den, pi |-> pi]

\* the throttle without the lower limit of 1 on the shrunk size
perSeriesPointSizeUnfloored(visibleCount, pointSize, width, height) ==
  LET budget == width * height * 4
      visCount == Max(1, visibleCount)
  IN IF PiExceeds(visCount * pointSize * pointSize, budget)
     THEN Squared(budget, visCount, 1)
     ELSE Squared(pointSize * pointSize, 1, 0)

\* the entry of perSeriesPointSizes for a series (gpu-worker.ts 737-746),
\* squared: Math.sqrt(budget / (visCount * Math.PI)) is below 1 exactly
\* when visCount * Math.PI > budget
perSeriesPointSize(visibleCount, pointSize, width, height) ==
  LET budget == width * height * 4
      visCount == Max(1, visibleCount)
  IN IF PiExceeds(visCount * pointSize * pointSize, budget)
     THEN IF PiExceeds(visCount, budget)
          THEN Squared(1, 1, 0)
          ELSE Squared(budget, visCount, 1)
     ELSE Squared(pointSize * pointSize, 1, 0)

\* i32(n / d) for d > 0: the quotient rounded towards zero
Trunc(n, d) == IF n >= 0 THEN n \div d ELSE 0 - ((0 - n) \div d)

\* <<i32(screenX * f32(width)), i32(screenY * f32(height))>> of a sample
\* (labels.ts 159-164)
pixelOf(u, x, y) ==
  <<Trunc((x - u.viewMinX) * u.width, u.viewMaxX - u.viewMinX),
    Trunc(((u.viewMaxY - u.viewMinY) - (y - u.viewMinY)) * u.height,
          u.viewMaxY - u.viewMinY)>>

\* fn main of SCATTER_COMPUTE_SHADER (labels.ts 142-192) for the invocation
\* localIdx: the statement it returns at, or the pixel it stamps
scatterMain(u, X, Y, localIdx) ==
  LET idx == u.visibleStart + localIdx
      Ret(why) == [idx |-> idx, write |-> FALSE, why |-> why, at |-> << >>]
  IN IF localIdx >= u.visibleCount THEN Ret("range")
     ELSE IF idx >= u.pointCount THEN Ret("range")
     ELSE IF Y[idx + 1] < u.viewMinY \/ Y[idx + 1] > u.viewMaxY
       THEN Ret("view")
     ELSE IF u.viewMaxX - u.viewMinX <= 0 \/ u.viewMaxY - u.viewMinY <= 0
       THEN Ret("window")
     ELSE IF idx > u.visibleStart
             /\ pixelOf(u, X[idx], Y[idx]) = pixelOf(u, X[idx + 1], Y[idx + 1])
       THEN Ret("collapse")
     ELSE LET px == pixelOf(u, X[idx + 1], Y[idx + 1])
          IN IF px[1] < 0 \/ px[1] >= u.width \/ px[2] < 0 \/ px[2] >= u.height
             THEN Ret("canvas")
             ELSE [idx |-> idx, write |-> TRUE, why |-> "", at |-> px]

\* the variables of the host code
hostVars == <<env, device, inits, initCount, statsInterval, frameCount, isDark,
              charts, surfaces, live, renderScheduled, rafPending,
              last, emitted, submitted, cmds, manager>>

\* lowerBound(v, count) is called on the bound X buffer, by itself or
\* after another call
Search(v) ==
  /\ \/ invoked.kernel = "none"
     \/ invoked.kernel = "lowerBound" /\ invoked.prev = << >>
  /\ invoked' = [kernel |-> "lowerBound",
                 u |-> [val |-> v, count |-> Len(storageX)],
                 out |-> lowerBound(storageX, v, Len(storageX)),
                 prev |-> IF invoked.kernel = "lowerBound"
                          THEN <<invoked.u.val, invoked.out>> ELSE << >>]
  /\ UNCHANGED <<storageX, storageY>>
  /\ UNCHANGED hostVars

\* <<startIdx, endIdx>> of the invocation outputIdx = c (labels.ts 225-230,
\* box.ts 49-54), X values times the width as in lineMain
columnRange(u, X, c) ==
  LET W == u.width
      XW == [i \in DOMAIN X |-> X[i] * W]
      viewRangeX == u.viewMaxX - u.viewMinX
  IN <<lowerBound(XW, u.viewMinX * W + c * viewRangeX, u.pointCount),
       Min(lowerBound(XW, u.viewMinX * W + (c + 1) * viewRangeX, u.pointCount),
           u.pointCount)>>

\* the invocation outputIdx = c reaches the aggregate branch: the series is
\* not empty, the window not degenerate and startIdx < endIdx
aggregates(u, X, c) ==
  /\ u.pointCount > 0
  /\ u.viewMaxX - u.viewMinX > 0
  /\ u.viewMaxY - u.viewMinY > 0
  /\ columnRange(u, X, c)[1] < columnRange(u, X, c)[2]

\* the indices of dataY the aggregate branch of the line kernel reads in
\* the invocation outputIdx = c, none in the other branches
lineRead(u, X, c) ==
  IF aggregates(u, X, c)
  THEN sampledIndices(columnRange(u, X, c)[1], columnRange(u, X, c)[2],
                      u.maxSamplesPerPixel, 1)
  ELSE {}

\* the same for the box kernel
boxRead(u, X, c, nan) ==
  IF aggregates(u, X, c)
  THEN boxSampledIndices(columnRange(u, X, c)[1], columnRange(u, X, c)[2],
                         u.maxSamplesPerPixel, nan)
  ELSE {}

\* One dispatch of the line aggregation pass (gpu-worker.ts 786-795): an
\* invocation for each column of the chart fills lineData.  The records are
\* a function of u and of the buffers alone, every column being rewritten,
\* so a dispatch is followed from the idle state only.
LineDispatch(u) ==
  /\ invoked.kernel = "none"
  /\ invoked' = [kernel |-> "line", u |-> u,
                 out |-> [c \in 1..u.width |->
                            lineMain(u, storageX, storageY, c - 1)],
                 read |-> [c \in 1..u.width |-> lineRead(u, storageX, c - 1)],
                 prev |-> << >>]
  /\ UNCHANGED <<storageX, storageY>>
  /\ UNCHANGED hostVars

\* One dispatch of the box aggregation pass.  The indeterminate index is
\* one value for the dispatch; the record of a column depends on the index
\* of that column only.
BoxDispatch(u, nan) ==
  /\ invoked.kernel = "none"
  /\ invoked' = [kernel |-> "box", u |-> u,
                 out |-> [c \in 1..u.width |->
                            boxMain(u, storageX, storageY, c - 1, nan)],
                 read |-> [c \in 1..u.width |->
                             boxRead(u, storageX, c - 1, nan)],
                 prev |-> << >>]
  /\ UNCHANGED <<storageX, storageY>>
  /\ UNCHANGED hostVars

\* One dispatch of the point-stamp pass: an invocation for each localIdx
\* below the visible count; the visible range of a series is all of it
\* (gpu-worker.ts 694-695)
ScatterDispatch(size, w) ==
  /\ invoked.kernel = "none"
  /\ \E u \in {[width |-> size[1], height |-> size[2],
                 viewMinX |-> w[1], viewMaxX |-> w[2],
                 viewMinY |-> w[3], viewMaxY |-> w[4],
                 pointCount |-> Len(storageX), visibleStart |-> 0,
                 visibleCount |-> Len(storageX)]} :
       invoked' = [kernel |-> "scatter", u |-> u,
                   out |-> [k \in 1..u.visibleCount |->
                              scatterMain(u, storageX, storageY, k - 1)],
                   prev |-> << >>]
  /\ UNCHANGED <<storageX, storageY>>
  /\ UNCHANGED hostVars

\* renderChartWithFXAA sizes the points of one scatter series
Throttle(d) ==
  /\ invoked.kernel = "none"
  /\ invoked' = [kernel |-> "throttle",
                 u |-> [visibleCount |-> d[1], pointSize |-> d[2],
                        width |-> d[3], height |-> d[4]],
                 out |-> perSeriesPointSize(d[1], d[2], d[3], d[4]),
                 prev |-> << >>]
  /\ UNCHANGED <<storageX, storageY>>
  /\ UNCHANGED hostVars

\* The kernels are run on buffers of every content, the host idle.
KernelInit ==
  /\ Constructed /\ env = "ok" /\ initCount = 0
  /\ inits = << >>
  /\ frameCount = 0
  /\ isDark = FALSE
  /\ last = Cmd("start", "", << >>, << >>)
  /\ emitted = << >>
  /\ submitted = << >>
  /\ cmds = 0
  /\ \/ \E n \in 0..MaxLen :
          /\ storageX \in [1..n -> XVals]
          /\ storageY \in [1..n -> YVals]
     \/ \E xy \in LongSeries : storageX = xy[1] /\ storageY = xy[2]
  /\ invoked = Idle
  /\ manager = Unstarted

\* the values the indeterminate index of a box dispatch may take: any
\* index of the buffer or none, where some column divides by zero (a cap of
\* 1 and more than one sample in the column); 0 where no column does
Indeterminate(u) ==
  IF /\ u.maxSamplesPerPixel = 1
     /\ \E c \in 0..(u.width - 1) :
          /\ aggregates(u, storageX, c)
          /\ columnRange(u, storageX, c)[2] - columnRange(u, storageX, c)[1] > 1
  THEN 0..Len(storageX)
  ELSE {0}

KernelNext ==
  \/ \E v \in Queries : Search(v)
  \/ \E d \in Densities : Throttle(d)
  \/ \E size \in ScatterSizes, w \in ScatterWindows :
       ScatterDispatch(size, w)
  \/ \E u \in Uniforms(LineCaps) : LineDispatch(u)
  \/ /\ invoked.kernel = "none"
     /\ \E u \in Uniforms(BoxCaps) :
          \E nan \in Indeterminate(u) : BoxDispatch(u, nan)

KernelSpec == KernelInit /\ [][KernelNext]_vars

\* ================================================================== claims
\* the number of frames of chart id among the submitted frames
Renders(frames, id) == Cardinality({i \in DOMAIN frames : frames[i].id = id})
View(c) == <<c.panX, c.panY, c.zoomX, c.zoomY>>
HasSeries(c) == Len(c.series) > 0
\* the GPU objects a chart holds: buffers, texture, view and bind groups
GpuObjects(c) ==
  <<c.uniformBuffer, c.seriesStorageBuffer, c.outputTexture,
    c.outputTextureView, c.fxaaBindGroup,
    [i \in DOMAIN c.series |->
       <<c.series[i].dataX, c.series[i].dataY, c.series[i].lineBuffer,
         c.series[i].seriesIndexBuffer, c.series[i].computeBindGroup,
         c.series[i].renderBindGroup>>]>>
\* a callback is pending
Pending == renderScheduled /\ rafPending = 1
\* the step taken is set-visibility(id, true) on a hidden, dirty chart
ShownDirty(l) ==
  l.type = "set-visibility" /\ l.arg = TRUE /\ l.was = <<TRUE, FALSE, TRUE>>

\* C1: a frame callback renders no invisible chart; after
\* set-visibility(true) on a hidden dirty chart a callback is pending; a
\* callback renders every visible dirty chart with a series exactly once and
\* clears its flag; it renders no chart that is not dirty.
C1_RendersShownOnce ==
  [][ /\ ShownDirty(last') => Pending'
      /\ last'.type = "frame" =>
           \A id \in DOMAIN charts :
             /\ ~charts[id].visible => Renders(submitted', id) = 0
             /\ ~charts[id].dirty => Renders(submitted', id) = 0
             /\ (charts[id].visible /\ charts[id].dirty /\ HasSeries(charts[id]))
                  => /\ Renders(submitted', id) = 1
                     /\ ~charts'[id].dirty ]_vars

\* C2: at most one frame callback is pending, and renderScheduled is true
\* exactly while one is.
C2_OneCallbackPending ==
  /\ rafPending <= 1
  /\ renderScheduled <=> rafPending = 1

\* a command reached scheduleRender while a callback was already pending
C2_Witness ==
  /\ last.type = "view-transform"
  /\ last.was = TRUE
  /\ charts[last.id].visible
  /\ last.sched
  /\ rafPending = 1

\* C3: after batch-view-transform every registered target holds the pan of
\* the command and its clamped zoom and is dirty, and the callback that
\* follows renders every target it renders with that transform.
C3_BatchAtomic ==
  /\ last.type = "batch-view-transform" =>
       \A id \in last.arg[2] \cap DOMAIN charts :
         /\ View(charts[id]) =
              <<last.arg[1].panX, last.arg[1].panY,
                Clamp(ZoomMin, ZoomMax, last.arg[1].zoomX),
                Clamp(ZoomMin, ZoomMax, last.arg[1].zoomY)>>
         /\ charts[id].dirty
  /\ (last.type = "frame" /\ last.was.type = "batch-view-transform") =>
       \A i \in DOMAIN submitted :
         submitted[i].id \in last.was.arg[2] =>
           submitted[i].view =
             <<last.was.arg[1].panX, last.was.arg[1].panY,
               Clamp(ZoomMin, ZoomMax, last.was.arg[1].zoomX),
               Clamp(ZoomMin, ZoomMax, last.was.arg[1].zoomY)>>

\* a batch addressed two charts and the next callback rendered both
C3_Witness ==
  /\ last.type = "frame"
  /\ last.was.type = "batch-view-transform"
  /\ last.was.arg[2] = ChartIds
  /\ Len(submitted) = 2
  /\ submitted[1].view = submitted[2].view

\* C4: every registered chart has zoomX and zoomY within [0.1, 1000000].
C4_ZoomInRange ==
  \A id \in DOMAIN charts :
    /\ ZoomMin <= charts[id].zoomX /\ charts[id].zoomX <= ZoomMax
    /\ ZoomMin <= charts[id].zoomY /\ charts[id].zoomY <= ZoomMax

\* C5: a resize to the current dimensions destroys and creates no GPU
\* object: every chart holds the same objects and the same handles are live.
C5_SameSizeKeepsObjects ==
  [][ (last'.type = "resize" /\ last'.was = "same") =>
        /\ live' = live
        /\ DOMAIN charts' = DOMAIN charts
        /\ \A id \in DOMAIN charts :
             GpuObjects(charts'[id]) = GpuObjects(charts[id]) ]_vars

\* a chart with series was resized to its current dimensions
C5_Witness ==
  /\ last.type = "resize"
  /\ last.was = "same"
  /\ HasSeries(charts[last.id])

\* C6 as stated: a resize to the current dimensions changes nothing: not
\* the registry (dirty flags included), not the live handles, not the
\* scheduler.
C6_SameSizeNoOp ==
  [][ (last'.type = "resize" /\ last'.was = "same") =>
        /\ charts' = charts
        /\ live' = live
        /\ renderScheduled' = renderScheduled
        /\ rafPending' = rafPending ]_vars

\* C6 amended: a resize to the current dimensions changes no GPU object and
\* no field of any chart but the dirty flag of the chart resized, which it
\* sets; a callback is pending afterwards if that chart is visible, and the
\* scheduler is unchanged if it is not.
C6_SameSizeMarksDirty ==
  [][ (last'.type = "resize" /\ last'.was = "same") =>
        /\ charts' = [charts EXCEPT ![last'.id].dirty = TRUE]
        /\ live' = live
        /\ charts[last'.id].visible => Pending'
        /\ ~charts[last'.id].visible =>
             /\ renderScheduled' = renderScheduled
             /\ rafPending' = rafPending ]_vars

\* a clean visible chart was resized to its current dimensions with no
\* callback pending
C6_Witness ==
  /\ last.type = "resize"
  /\ last.was = "same"
  /\ last.id \notin last.dirty
  /\ ~last.sched
  /\ charts[last.id].visible
  /\ charts[last.id].dirty

\* what the commands of the controller can change
EngineState ==
  <<device, inits, statsInterval, frameCount, isDark, charts, surfaces, live,
    renderScheduled, rafPending>>

\* C7: a command of an unknown type and a resize to a non-positive width or
\* height change nothing of the engine and post no event.
C7_DroppedCommands ==
  [][ (\/ last'.type \in UnknownTypes
       \/ (last'.type = "resize" /\ last'.was = "invalid")) =>
        /\ EngineState' = EngineState
        /\ emitted' = << >> ]_vars

\* a clean registered chart was sent a resize to a non-positive width
C7_Witness ==
  /\ last.type = "resize"
  /\ last.was = "invalid"
  /\ Known(last.id)
  /\ ~charts[last.id].dirty
  /\ ~last.sched

\* C8: after unregister-chart of a registered chart none of the handles it
\* held is live, its surface is unconfigured and the id is not registered.
C8_UnregisterReleases ==
  (last.type = "unregister-chart" /\ last.was[1]) =>
    /\ last.was[2] \cap live = {}
    /\ surfaces[last.id] = "unconfigured"
    /\ ~Known(last.id)

\* a line chart with two series was unregistered
C8_Witness ==
  /\ last.type = "unregister-chart"
  /\ last.was[1]
  /\ Cardinality(last.was[2]) >= 9

\* the update-series handled last raised no exception
UpdateSucceeded ==
  /\ last.type = "update-series"
  /\ last.was[1]
  /\ \A i \in DOMAIN emitted : emitted[i].type # "error"

\* C9: after a successful update-series(id, L, b) the buffers of the old
\* series and the old Series-Info buffer are destroyed, the series are
\* those of L in order with pointCount the length of X and the visible
\* range [0, pointCount), the bounds are b, and the one event posted is
\* bounds-update(id, b).
C9_UpdateReplaces ==
  UpdateSucceeded =>
    LET c == charts[last.id]
        L == last.arg[1]
        b == last.arg[2]
    IN /\ last.was[2] \cap live = {}
       /\ Len(c.series) = Len(L)
       /\ \A i \in DOMAIN L :
            /\ c.series[i].label = L[i].label
            /\ c.series[i].pointCount = L[i].n
            /\ c.series[i].visibleStart = 0
            /\ c.series[i].visibleCount = L[i].n
       /\ <<c.minX, c.maxX, c.minY, c.maxY>> = <<b.minX, b.maxX, b.minY, b.maxY>>
       /\ emitted = <<Ev("bounds-update", last.id, b)>>

\* a chart holding series was given two new series
C9_Witness ==
  /\ UpdateSucceeded
  /\ Cardinality(last.was[2]) >= 4
  /\ Len(last.arg[1]) = 2

\* C10: update-series, set-point-size, set-max-samples, set-style,
\* view-transform and a resize to new positive dimensions leave the chart
\* they name dirty, theme leaves every chart dirty, and a callback is
\* pending if a chart so marked is visible.
C10_MutationsMarkDirty ==
  /\ (/\ \/ last.type \in {"update-series", "set-point-size",
                             "set-max-samples", "set-style", "view-transform"}
          \/ (last.type = "resize" /\ last.was = "new")
       /\ Known(last.id)) =>
        /\ charts[last.id].dirty
        /\ charts[last.id].visible => Pending
  /\ last.type = "theme" =>
        \A id \in DOMAIN charts :
          /\ charts[id].dirty
          /\ charts[id].visible => Pending

\* the style of a clean visible chart was set with no callback pending
C10_Witness ==
  /\ last.type = "set-style"
  /\ Known(last.id)
  /\ last.id \notin last.dirty
  /\ ~last.sched
  /\ charts[last.id].visible
  /\ Pending

\* the step taken last is set-visibility(id, true) on a registered chart
\* that was invisible
Shown(l) ==
  l.type = "set-visibility" /\ l.arg = TRUE /\ l.was[1] /\ ~l.was[2]

\* C11 as stated: set-visibility(id, true) on an invisible registered chart
\* leaves the chart dirty.
C11_ShowMarksDirty == Shown(last) => charts[last.id].dirty

\* C11 amended: set-visibility(id, true) on an invisible registered chart
\* makes it visible and leaves its dirty flag as it was; if the chart is
\* dirty a callback is pending afterwards, and if it is not the scheduler
\* is as it was.
C11_ShowKeepsDirty ==
  Shown(last) =>
    /\ charts[last.id].visible
    /\ charts[last.id].dirty = last.was[3]
    /\ last.was[3] => Pending
    /\ ~last.was[3] => /\ renderScheduled = last.sched
                       /\ (rafPending = 1) = last.sched

\* a clean invisible chart was made visible with no callback pending
C11_Witness ==
  /\ Shown(last)
  /\ ~last.was[3]
  /\ ~last.sched
  /\ ~charts[last.id].dirty
  /\ rafPending = 0

\* C12: in a frame callback a chart that is invisible or has width or
\* height 0 is not rendered and keeps its dirty flag; any other chart is
\* rendered once and its flag cleared if it is dirty, and is not rendered
\* if it is not.
C12_FrameRendersDue ==
  [][ last'.type = "frame" =>
        \A id \in DOMAIN charts :
          IF ~charts[id].visible \/ charts[id].width = 0 \/ charts[id].height = 0
          THEN /\ Renders(submitted', id) = 0
               /\ charts'[id].dirty = charts[id].dirty
          ELSE IF charts[id].dirty
               THEN Renders(submitted', id) = 1 /\ ~charts'[id].dirty
               ELSE Renders(submitted', id) = 0 /\ ~charts'[id].dirty ]_vars

\* the Parameter Block that renderChartWithFXAA writes first for frame f
FirstBlock(f) == f.writes[1].data
\* the kinds of the passes of frame f, in order
PassKinds(f) == [k \in DOMAIN f.passes |-> f.passes[k].pass]
\* the series of frame f that have points
NonEmpty(f) == {i \in DOMAIN f.pointCounts : f.pointCounts[i] # 0}

\* C13 as stated: no frame is submitted for a chart whose window is
\* degenerate.
C13_DegenerateSkipped ==
  \A i \in DOMAIN submitted : ~DegenerateWindow(FirstBlock(submitted[i]))

\* C13 amended: a degenerate window does not make the callback skip the
\* chart: a visible dirty chart with a series whose surface yields a
\* texture is submitted once, with its clear, one aggregation pass per
\* non-empty series and its post-process pass, also when its window is
\* degenerate.
C13_DegenerateSubmitted ==
  [][ last'.type = "frame" =>
        \A id \in DOMAIN charts :
          (/\ due(charts[id])
           /\ HasSeries(charts[id])
           /\ id \notin last'.arg
           /\ DegenerateWindow(writeUniforms(charts[id], 1))) =>
            /\ Renders(submitted', id) = 1
            /\ \A i \in DOMAIN submitted' :
                 submitted'[i].id = id =>
                   LET K == PassKinds(submitted'[i])
                   IN /\ K[1] = "clear"
                      /\ K[Len(K)] = "fxaa"
                      /\ Cardinality({k \in DOMAIN K : K[k] = "compute"})
                           = Cardinality(NonEmpty(submitted'[i])) ]_vars

\* a callback submitted the frame of a chart whose bounds have minX = maxX
C13_Witness ==
  /\ last.type = "frame"
  /\ \E i \in DOMAIN submitted :
       /\ DegenerateWindow(FirstBlock(submitted[i]))
       /\ NonEmpty(submitted[i]) # {}

\* C14: the passes of every submitted frame are: the clear of the
\* off-screen target, one aggregation pass per non-empty series in
\* registration order, for line and box one raster pass drawing the
\* non-empty series in that order, and one post-process pass; a callback
\* submits one encoder per chart.
C14_PassOrder ==
  /\ \A i, j \in DOMAIN submitted :
       submitted[i].id = submitted[j].id => i = j
  /\ \A i \in DOMAIN submitted :
       LET f == submitted[i]
           P == f.passes
           m == Cardinality(NonEmpty(f))
       IN /\ P[1].pass = "clear" /\ P[1].target = f.target
          /\ \A k \in 2..(m + 1) :
               /\ P[k].pass = "compute"
               /\ P[k].series[1] \in NonEmpty(f)
               /\ k > 2 => P[k - 1].series[1] < P[k].series[1]
          /\ IF f.type = "scatter"
             THEN Len(P) = m + 2
             ELSE /\ Len(P) = m + 3
                  /\ P[m + 2].pass = "raster"
                  /\ P[m + 2].series = [k \in 1..m |-> P[k + 1].series[1]]
          /\ P[Len(P)].pass = "fxaa"

\* a line chart with an empty and a non-empty series was rendered
C14_Witness ==
  /\ last.type = "frame"
  /\ \E i \in DOMAIN submitted :
       /\ submitted[i].type = "line"
       /\ submitted[i].pointCounts = <<0, 3>>
       /\ Len(submitted[i].passes) = 4

\* C15: in a line or box frame the aggregation pass of series i runs on
\* the Parameter Block written for series i: the pointCount it reads is
\* that of series i.
C15_DispatchReadsOwnBlock ==
  \A i \in DOMAIN submitted :
    submitted[i].type # "scatter" =>
      \A k \in DOMAIN submitted[i].passes :
        submitted[i].passes[k].pass = "compute" =>
          uniformAtSubmit(submitted[i].writes).pointCount
            = submitted[i].pointCounts[submitted[i].passes[k].series[1]]

\* the least index i in 0..Len(X) with X[i] >= v (Len(X) if there is none),
\* indices counted from 0
LeastIndex(X, v) ==
  CHOOSE i \in 0..Len(X) :
    /\ i = Len(X) \/ X[i + 1] >= v
    /\ \A j \in 0..(i - 1) : X[j + 1] < v

\* C17: on a non-decreasing X array lowerBound(v, count) returns the least
\* index i in [0, count] with dataX[i] >= v, count if there is none, and
\* of two calls the one with the smaller v returns the smaller or equal
\* index.
C17_LowerBound ==
  (invoked.kernel = "lowerBound" /\ Sorted(storageX)) =>
    /\ invoked.out = LeastIndex(storageX, invoked.u.val)
    /\ (invoked.prev # << >> /\ invoked.prev[1] <= invoked.u.val)
         => invoked.prev[2] <= invoked.out

\* two searches in a sorted array of three samples with a repeated X
\* returned different interior indices
C17_Witness ==
  /\ invoked.kernel = "lowerBound"
  /\ storageX = <<1, 1, 3>>
  /\ invoked.prev # << >>
  /\ invoked.prev[1] < invoked.u.val
  /\ invoked.prev[2] = 0
  /\ invoked.out = 2

\* pixelMinX of column c (counted from 1) times the width; pixelMaxX of
\* column c is ColumnEdge(u, c + 1)
ColumnEdge(u, c) == u.viewMinX * u.width + (c - 1) * (u.viewMaxX - u.viewMinX)

\* the samples of X (indices from 1) with pixelMinX <= x < pixelMaxX in
\* column c, found by a scan of the whole array
InColumn(u, X, c) ==
  { i \in DOMAIN X : /\ ColumnEdge(u, c) <= X[i] * u.width
                     /\ X[i] * u.width < ColumnEdge(u, c + 1) }

\* the samples of X inside the viewport window
InWindow(u, X) == { i \in DOMAIN X : u.viewMinX <= X[i] /\ X[i] < u.viewMaxX }

\* the columns of the last dispatch marked valid by the line kernel
ValidColumns == { c \in DOMAIN invoked.out : invoked.out[c].valid = 1 }

\* the columns of the last dispatch whose interval holds a sample
HoldingColumns ==
  { c \in DOMAIN invoked.out : InColumn(invoked.u, storageX, c) # {} }

\* over the columns cols, the least minScreenY is the screen value of the
\* greatest Y and the greatest maxScreenY that of the least Y of the
\* samples inside the window
ExtremaOver(cols) ==
  LET inside == { storageY[i] : i \in InWindow(invoked.u, storageX) }
  IN /\ MinOf({ invoked.out[c].minScreenY[1] : c \in cols })
          = screenY(invoked.u, MaxOf(inside))[1]
     /\ MaxOf({ invoked.out[c].maxScreenY[1] : c \in cols })
          = screenY(invoked.u, MinOf(inside))[1]

C20_LowerNotAboveUpper ==
  /\ invoked.kernel = "line" =>
       \A c \in ValidColumns :
         /\ invoked.out[c].minScreenY[2] = invoked.out[c].maxScreenY[2]
         /\ invoked.out[c].minScreenY[2] > 0
         /\ invoked.out[c].minScreenY[1] <= invoked.out[c].maxScreenY[1]
  /\ invoked.kernel = "box" =>
       \A c \in DOMAIN invoked.out :
         invoked.out[c].barWidth[1] > 0 =>
           /\ invoked.out[c].barWidth[2] > 0
           /\ invoked.out[c].minY <= invoked.out[c].maxY

\* a box dispatch with a cap of 1, whose strided index is indeterminate,
\* aggregated several samples into a bar with minY < maxY
C20_Witness ==
  /\ invoked.kernel = "box"
  /\ invoked.u.maxSamplesPerPixel = 1
  /\ \E c \in DOMAIN invoked.out :
       /\ Cardinality(InColumn(invoked.u, storageX, c)) = 3
       /\ invoked.out[c].barWidth[1] > 0
       /\ invoked.out[c].minY < invoked.out[c].maxY

\* the pixel budget 4 * width * height of the sized series
Budget == invoked.u.width * invoked.u.height * 4

\* the configured radius exceeds the budget: radius^2 * pi * sampleCount >
\* 4 * width * height
OverBudget ==
  /\ invoked.u.visibleCount > 0
  /\ PiExceeds(invoked.u.visibleCount * invoked.u.pointSize * invoked.u.pointSize,
               Budget)

\* r^2 * pi * sampleCount <= 4 * width * height for the size chosen
WithinBudget ==
  IF invoked.out.pi = 1
  THEN invoked.out.num * invoked.u.visibleCount <= Budget * invoked.out.den
  ELSE ~PiExceeds(invoked.out.num * invoked.u.visibleCount,
                  Budget * invoked.out.den)

C21_StridedSubset ==
  (/\ invoked.kernel \in {"line", "box"}
   /\ Sorted(storageX)
   /\ invoked.u.maxSamplesPerPixel >= 1) =>
    \A c \in DOMAIN invoked.out :
      LET r == columnRange(invoked.u, storageX, c - 1)
      IN (/\ aggregates(invoked.u, storageX, c - 1)
          /\ r[2] - r[1] > invoked.u.maxSamplesPerPixel) =>
            /\ invoked.read[c] \subseteq r[1]..(r[2] - 1)
            /\ r[1] \in invoked.read[c]
            /\ (r[2] - 1) \in invoked.read[c]
            /\ Cardinality(invoked.read[c]) <= invoked.u.maxSamplesPerPixel + 1

\* the window of the last dispatch has viewMinX < viewMaxX and
\* viewMinY < viewMaxY
ProperWindow ==
  /\ invoked.u.viewMinX < invoked.u.viewMaxX
  /\ invoked.u.viewMinY < invoked.u.viewMaxY

\* the single-sample record of the sample at index b (from 0)
SingleSample(b) ==
  [screenX |-> <<storageX[b + 1] - invoked.u.viewMinX,
                 invoked.u.viewMaxX - invoked.u.viewMinX>>,
   minScreenY |-> screenY(invoked.u, storageY[b + 1]),
   maxScreenY |-> screenY(invoked.u, storageY[b + 1]),
   valid |-> 1]

PassRefs(p) ==
  IF p.pass = "clear" THEN {p.target}
  ELSE IF p.pass = "raster"
    THEN {p.target} \cup UNION { IF p.buffers[k] = << >> THEN {0}
                                 ELSE Range(p.buffers[k]) : k \in DOMAIN p.buffers }
  ELSE IF p.target = << >> THEN {0} ELSE Range(p.target)

\* the queue executes the commands of frame f: none of the buffers and
\* textures they refer to is missing or destroyed
Executes(f) == \A k \in DOMAIN f.passes : PassRefs(f.passes[k]) \subseteq live

\* the columns of its lineData the invocations of aggregation pass p write
\* under Parameter Block u: invocation outputIdx writes record outputIdx, if
\* outputIdx < u32(u.width) and the buffer is that long
ColumnsWritten(p, u) ==
  { k \in 0..(p.workgroups[1] * p.workgroups[2] * COMPUTE_WG - 1) :
      k < u.width /\ k < p.lineData[2] }

\* C23: in every executed frame of a line or box chart, the aggregation
\* pass of each non-empty series writes the records 0..width-1 of the
\* buffer of that series, one invocation each, and the draw of the series
\* in the raster pass reads that buffer.
C23_EveryColumnWritten ==
  \A i \in DOMAIN submitted :
    LET f == submitted[i]
        n == Cardinality(NonEmpty(f))
    IN (f.type # "scatter" /\ Executes(f)) =>
         \A k \in 1..n :
           /\ ColumnsWritten(f.passes[k + 1], uniformAtSubmit(f.writes))
                = 0..(charts[f.id].width - 1)
           /\ f.passes[k + 1].target[4] = f.passes[k + 1].lineData[1]
           /\ f.passes[n + 2].buffers[k][2] = f.passes[k + 1].lineData[1]

\* sample i (from 1) has a destination pixel on the canvas: its X and Y
\* lie in the window of the last dispatch, viewMinX <= x < viewMaxX and
\* viewMinY < y <= viewMaxY
OnCanvas(i) ==
  /\ invoked.u.viewMinX <= storageX[i] /\ storageX[i] < invoked.u.viewMaxX
  /\ invoked.u.viewMinY < storageY[i] /\ storageY[i] <= invoked.u.viewMaxY

\* samples a..b (from 1) of the visible range are a run: consecutive
\* samples on the canvas with one destination pixel, not preceded or
\* followed in the range by another such sample
IsRun(a, b) ==
  LET px(i) == pixelOf(invoked.u, storageX[i], storageY[i])
      first == invoked.u.visibleStart + 1
      tail == invoked.u.visibleStart + invoked.u.visibleCount
  IN /\ first <= a /\ a <= b /\ b <= tail
     /\ \A i \in a..b : OnCanvas(i) /\ px(i) = px(a)
     /\ a > first => ~(OnCanvas(a - 1) /\ px(a - 1) = px(a))
     /\ b < tail => ~(OnCanvas(b + 1) /\ px(b + 1) = px(a))

\* C24: in a point-stamp dispatch, of every run of consecutive samples
\* inside the window with one destination pixel the first sample writes
\* the pixel and the others do not.
C24_OneWritePerRun ==
  (invoked.kernel = "scatter" /\ ProperWindow) =>
    \A a, b \in DOMAIN storageX :
      IsRun(a, b) =>
        \A i \in a..b :
          invoked.out[i - invoked.u.visibleStart].write = (i = a)

\* the number of invocations of point-stamp pass p that reach the view
\* test with idx = k, for a series whose visible range is [0, vis), under
\* Parameter Block u: invocation (x, y) of the grid has localIdx =
\* y * u.dispatchXCount + x and returns before the test unless
\* localIdx < vis and idx < u.pointCount (labels.ts 146-150)
HandledBy(p, u, vis, k) ==
  IF k < vis /\ k < u.pointCount
  THEN Cardinality({ y \in 0..(p.workgroups[2] - 1) :
                       /\ k - y * u.dispatchXCount >= 0
                       /\ k - y * u.dispatchXCount < p.workgroups[1] * COMPUTE_WG })
  ELSE 0

\* C25: in every executed point-stamp frame, each sample index of the
\* visible range of each non-empty series reaches the view test in exactly
\* one invocation of the pass of that series.
C25_EverySampleOnce ==
  \A i \in DOMAIN submitted :
    LET f == submitted[i]
    IN (f.type = "scatter" /\ Executes(f)) =>
         \A k \in DOMAIN f.passes :
           f.passes[k].pass = "compute" =>
             \A idx \in 0..(f.pointCounts[f.passes[k].series[1]] - 1) :
               HandledBy(f.passes[k], uniformAtSubmit(f.writes),
                         f.pointCounts[f.passes[k].series[1]], idx) = 1

\* a step leaves every registered chart other than id as it is: its
\* record, its surface, and its buffers and textures still alive
OthersUnchanged(id) ==
  \A k \in DOMAIN charts \ {id} :
    /\ k \in DOMAIN charts'
    /\ charts'[k] = charts[k]
    /\ surfaces'[k] = surfaces[k]
    /\ ChartRefs(charts[k]) \cap live \subseteq live'

\* the step is a register-chart command during which the acquisition or
\* the configuration of the surface or the creation of a resource fails
RegisterFails ==
  /\ last'.type = "register-chart"
  /\ device = 0 \/ last'.arg[2] # "none"

Posted(evs, type) == \E i \in DOMAIN evs : evs[i].type = type

\* the step is a resize command during which the creation of a resource
\* fails: the chart and the live handles are those a throwing create call
\* leaves behind
ResizeFails ==
  /\ last'.type = "resize"
  /\ last'.was = "new"
  /\ \E failAt \in FailPoints \ {0} :
        LET m == resizeChartBody(Machine(charts[last'.id], live,
                                         live \cup AllRefs(charts), failAt),
                                 last'.arg[1], last'.arg[2])
        IN /\ m.thrown
           /\ live' = m.live
           /\ charts'[last'.id] = [m.c EXCEPT !.dirty = TRUE]

\* C26: a register-chart command that fails posts an error event and no
\* chart-registered event, adds no chart and leaves every other chart as it
\* is; a resize command whose resource creation fails posts an error event
\* and leaves every other chart as it is.
C26_FailureStaysLocal ==
  [][ /\ RegisterFails =>
           /\ Posted(emitted', "error")
           /\ ~Posted(emitted', "chart-registered")
           /\ DOMAIN charts' = DOMAIN charts
           /\ OthersUnchanged(last'.id)
      /\ ResizeFails =>
           /\ Posted(emitted', "error")
           /\ OthersUnchanged(last'.id) ]_vars

\* the number of events of one type among the events of a step
CountPosted(evs, type) ==
  Cardinality({i \in DOMAIN evs : evs[i].type = type})

\* C27: where there is no GPU support or no adapter, an init posts exactly
\* one error event (in the step that finds the failure), no step ever posts
\* a ready or a stats event, and every register-chart command posts an
\* error event and leaves the registry empty.
C27_FailedInitUnusable ==
  [][ env # "ok" =>
        /\ device' = 0
        /\ charts' = << >>
        /\ ~Posted(emitted', "gpu-ready")
        /\ ~Posted(emitted', "stats")
        /\ last'.type = "init" =>
              IF env = "nogpu"
              THEN CountPosted(emitted', "error") = 1 /\ inits' = inits
              ELSE emitted' = << >> /\ Len(inits') = Len(inits) + 1
        /\ last'.type = "init-adapter" =>
              /\ CountPosted(emitted', "error") = 1
              /\ Len(inits') = Len(inits) - 1
        /\ last'.type = "register-chart" =>
              /\ Posted(emitted', "error")
              /\ ~Posted(emitted', "chart-registered") ]_vars

\* C27 witness: after an init that failed, a register-chart command was
\* answered with an error event and the registry is empty.
C27_Witness ==
  /\ env # "ok"
  /\ initCount > 0
  /\ inits = << >>
  /\ last.type = "register-chart"
  /\ Posted(emitted, "error")
  /\ charts = << >>

\* C28: once an init has succeeded there is one statistics timer, however
\* many init commands are handled; a stats event carries the frame
\* callbacks run since the previous one (the counter, advanced by one by
\* each callback and by nothing else, is reset by the event), the number of
\* registered charts, and the number of them visible with a positive
\* width, which is at most the former.
C28_StatsCounts ==
  [][ /\ device' # 0 => statsInterval' = 1
      /\ device' = 0 => statsInterval' = 0
      /\ last'.type = "stats" =>
            /\ statsInterval = 1
            /\ emitted' =
                 <<Ev("stats", "",
                      [fps |-> frameCount,
                       totalCharts |-> Cardinality(DOMAIN charts),
                       activeCharts |->
                         Cardinality({id \in DOMAIN charts :
                                        /\ charts[id].visible
                                        /\ charts[id].width > 0})])>>
            /\ emitted'[1].data.activeCharts <= emitted'[1].data.totalCharts
            /\ frameCount' = 0
      /\ last'.type = "frame" => frameCount' = frameCount + 1
      /\ last'.type \notin {"stats", "frame"} => frameCount' = frameCount
      /\ last'.type # "stats" => ~Posted(emitted', "stats") ]_vars

\* C28 witness: a second init command was handled with the device present,
\* and the timer then posted a stats event counting a frame callback, with
\* a hidden chart among the registered ones.
C28_Witness ==
  /\ initCount > 1
  /\ statsInterval = 1
  /\ last.type = "stats"
  /\ emitted[1].data.fps = 1
  /\ emitted[1].data.activeCharts < emitted[1].data.totalCharts

\* the commands addressed to one chart id
PerChartCommands ==
  {"update-series", "set-point-size", "set-max-samples", "set-style",
   "set-visibility", "view-transform", "resize", "unregister-chart"}

\* C29: a command addressed to one chart id, whether it succeeds or fails,
\* leaves the record, the surface and the live buffers and textures of
\* every other registered chart as they were.
C29_OtherChartsUntouched ==
  [][ last'.type \in PerChartCommands => OthersUnchanged(last'.id) ]_vars

\* C29 witness: with two charts registered, the other one clean, a command
\* to one of them failed while creating its resources.
C29_Witness ==
  /\ last.type \in {"update-series", "resize"}
  /\ Posted(emitted, "error")
  /\ \E k \in DOMAIN charts \ {last.id} : ~charts[k].dirty

\* ------------------------------------------------------- the chart manager
\* the names of the plugins the page may register
PluginNames == {"labels", "zoom"}
\* `chart-${n}` (part_002 312)
ChartId(n) == "chart-" \o ToString(n)
\* the ids destroy is called with: the ids create can return and one it
\* never returns
DestroyIds == {ChartId(n) : n \in 0..MaxCreates}

\* the variables of the worker and of the kernels
workerVars == <<env, device, inits, initCount, statsInterval, frameCount,
                isDark, charts, surfaces, live, renderScheduled, rafPending,
                last, emitted, submitted, cmds, storageX, storageY, invoked>>

Msg(type, id) == [type |-> type, id |-> id]

\* ChartManager.getChartCount (part_002 644-646)
getChartCount(m) == Cardinality(DOMAIN m.charts)

\* ChartManager.init (part_002 234-256) up to its return: with
\* this.worker set it returns true at once (235); otherwise its promise
\* waits for the import of the worker code.  `inits` holds the promises of
\* the calls; `ready` tells whether an engine had reported ready when the
\* promise was fulfilled with true.
ManagerInit ==
  /\ Len(manager.inits) < MaxInits
  /\ manager' =
       [manager EXCEPT
          !.inits =
             Append(@, IF manager.worker
                       THEN [state |-> "true", worker |-> 0,
                             ready |-> \E w \in DOMAIN manager.workers :
                                         manager.workers[w] = "ready"]
                       ELSE [state |-> "importing", worker |-> 0,
                             ready |-> FALSE]),
          !.op = [NoCall EXCEPT !.name = "init", !.returned = TRUE]]
  /\ UNCHANGED workerVars

\* the import of call k settled (part_002 240-254): either callback creates
\* a Worker, stores it in this.worker and runs setupWorkerHandlers
\* (258-305), which installs the handlers that settle the promise of call
\* k and posts init
WorkerCreated(k) ==
  /\ k \in DOMAIN manager.inits
  /\ manager.inits[k].state = "importing"
  /\ manager' =
       [manager EXCEPT
          !.worker = TRUE,
          !.workers = Append(@, "starting"),
          !.inits[k] = [state |-> "waiting",
                        worker |-> Len(manager.workers) + 1,
                        ready |-> FALSE],
          !.op = [NoCall EXCEPT !.name = "setupWorkerHandlers",
                                !.posted = <<Msg("init", << >>)>>,
                                !.returned = TRUE]]
  /\ UNCHANGED workerVars

\* worker.onmessage for the answer of worker w to its init command
\* (part_002 261-272): gpu-ready resolves the promise with true, error
\* with false
WorkerAnswered(w, type) ==
  /\ w \in DOMAIN manager.workers
  /\ manager.workers[w] = "starting"
  /\ manager' =
       [manager EXCEPT
          !.workers[w] = IF type = "gpu-ready" THEN "ready" ELSE "failed",
          !.inits = [k \in DOMAIN @ |->
                       IF @[k].worker = w
                       THEN [@[k] EXCEPT
                               !.state = IF type = "gpu-ready" THEN "true"
                                         ELSE "false",
                               !.ready = (type = "gpu-ready")]
                       ELSE @[k]],
          !.op = [NoCall EXCEPT !.name = "onmessage", !.id = type,
                                !.returned = TRUE]]
  /\ UNCHANGED workerVars

\* registerPlugin (part_002 111-115)
RegisterPlugin(name) ==
  /\ manager' =
       [manager EXCEPT
          !.globalPlugins =
             IF \E i \in DOMAIN @ : @[i] = name THEN @ ELSE Append(@, name),
          !.op = [NoCall EXCEPT !.name = "registerPlugin", !.id = name,
                                !.returned = TRUE]]
  /\ UNCHANGED workerVars

\* unregisterPlugin (part_002 117-120)
UnregisterPlugin(name) ==
  /\ manager' =
       [manager EXCEPT
          !.globalPlugins = SelectSeq(@, LAMBDA p : p # name),
          !.op = [NoCall EXCEPT !.name = "unregisterPlugin", !.id = name,
                                !.returned = TRUE]]
  /\ UNCHANGED workerVars

\* ChartManager.create (part_002 307-485).  It throws with no worker; it
\* takes the next id; it throws when the canvas cannot be transferred;
\* otherwise it stores the chart, posts register-chart, installs the
\* plugins registered now, and posts update-series and the view unless
\* config.series is empty (part_002 508-509, 580).
managerCreate(m, hasSeries, offscreenFails) ==
  LET id == ChartId(m.chartIdCounter + 1)
      call == [NoCall EXCEPT !.name = "create"]
  IN IF ~m.worker THEN [m EXCEPT !.op = call]
     ELSE IF offscreenFails
       THEN [m EXCEPT !.chartIdCounter = @ + 1, !.op = [call EXCEPT !.id = id]]
     ELSE [m EXCEPT
             !.chartIdCounter = @ + 1,
             !.charts = (id :> Range(m.globalPlugins)) @@ @,
             !.views = (id :> UnitView) @@ @,
             !.returned = @ \cup {id},
             !.op = [call EXCEPT
                       !.id = id,
                       !.posted = <<Msg("register-chart", id)>> \o
                                  (IF hasSeries
                                   THEN <<Msg("update-series", id),
                                          Msg("view-transform", id)>>
                                   ELSE << >>),
                       !.returned = TRUE]]

ManagerCreate(hasSeries, offscreenFails) ==
  /\ manager.chartIdCounter < MaxCreates
  /\ manager' = managerCreate(manager, hasSeries, offscreenFails)
  /\ UNCHANGED workerVars

\* ChartManager.destroy (part_002 487-504): the chart of an id maps to the
\* plugins installed on it
managerDestroy(m, id) ==
  LET call == [NoCall EXCEPT !.name = "destroy", !.id = id, !.returned = TRUE]
  IN IF id \notin DOMAIN m.charts THEN [m EXCEPT !.op = call]
     ELSE [m EXCEPT
             !.charts = [k \in DOMAIN @ \ {id} |-> @[k]],
             !.views = [k \in DOMAIN @ \ {id} |-> @[k]],
             !.op = [call EXCEPT
                       !.uninstalled = Range(m.globalPlugins),
                       !.posted = IF m.worker
                                  THEN <<Msg("unregister-chart", id)>>
                                  ELSE << >>]]

ManagerDestroy(id) ==
  /\ manager' = managerDestroy(manager, id)
  /\ UNCHANGED workerVars

ManagerNext ==
  \/ ManagerInit
  \/ \E k \in 1..MaxInits : WorkerCreated(k)
  \/ \E w \in 1..MaxInits, type \in {"gpu-ready", "error"} :
       WorkerAnswered(w, type)
  \/ \E name \in PluginNames : RegisterPlugin(name)
  \/ \E name \in PluginNames : UnregisterPlugin(name)
  \/ \E hasSeries \in Bools, offscreenFails \in Bools :
       ManagerCreate(hasSeries, offscreenFails)
  \/ \E id \in DestroyIds : ManagerDestroy(id)

\* the page loaded: the worker not created, nothing bound to the kernels
PageInit ==
  /\ Constructed /\ env = "ok" /\ initCount = 0
  /\ inits = << >>
  /\ frameCount = 0
  /\ isDark = FALSE
  /\ last = Cmd("start", "", << >>, << >>)
  /\ emitted = << >>
  /\ submitted = << >>
  /\ cmds = 0
  /\ storageX = << >>
  /\ storageY = << >>
  /\ invoked = Idle
  /\ manager = Unstarted

ManagerSpec == PageInit /\ [][ManagerNext]_vars

\* C30: on an initialized manager, a create call that returns yields an id
\* no earlier call returned and raises the chart count by one; destroy of
\* an existing chart lowers the count by one, posts one unregister-chart
\* for the id and calls uninstall for every plugin installed on the chart;
\* destroy of an unknown id changes nothing.
C30_CreateDestroy ==
  [][ LET op == manager'.op
      IN /\ (op.name = "create" /\ op.returned) =>
              /\ op.id \notin manager.returned
              /\ getChartCount(manager') = getChartCount(manager) + 1
         /\ (op.name = "destroy" /\ op.id \in DOMAIN manager.charts) =>
              /\ getChartCount(manager') = getChartCount(manager) - 1
              /\ op.posted = <<Msg("unregister-chart", op.id)>>
              /\ manager.charts[op.id] \subseteq op.uninstalled
         /\ (op.name = "destroy" /\ op.id \notin DOMAIN manager.charts) =>
              /\ manager' = [manager EXCEPT !.op = op]
              /\ op.posted = << >>
              /\ op.uninstalled = {} ]_vars

\* ------------------------------------------------------------ frame ticks
\* a frame callback runs (requestAnimationFrame runs every callback
\* requested)
FrameTick == \E texFail \in SUBSET Acquiring : RenderFrame(texFail)

\* the boots the fair engine starts from: a visible chart without series
\* beside a hidden one with series, both dirty
FairBoots ==
  { << <<"chart-1", "box", NoUpdate, TRUE>>, <<"chart-2", "scatter", UpdateB, FALSE>> >> }

\* the engine as constructed, or booted with a frame callback pending
FairInit ==
  /\ \/ Constructed /\ initCount = 0
     \/ (\E boot \in FairBoots : Booted(boot)) /\ initCount = MaxInits - 1
  /\ inits = << >>
  /\ frameCount = 0
  /\ isDark = FALSE
  /\ last = Cmd("start", "", << >>, << >>)
  /\ emitted = << >>
  /\ submitted = << >>
  /\ cmds = 0
  /\ storageX = << >>
  /\ storageY = << >>
  /\ invoked = Idle
  /\ manager = Unstarted

\* the engine with a tick source that eventually runs a pending callback
FairSpec == FairInit /\ [][Next]_vars /\ WF_vars(FrameTick)

\* chart id is registered, visible and dirty, with a positive width
Due(id) == Known(id) /\ due(charts[id])

AnyDue == \E id \in ChartIds : Due(id)

\* C33: between steps, a frame callback is pending whenever some registered
\* chart is visible and dirty with a positive width; hence, the pending
\* callback being run eventually, a moment follows at which no chart is so:
\* a frame has cleared each one's flag, or it was hidden or unregistered.
C33_NoLostWakeup ==
  /\ [](AnyDue => rafPending > 0)
  /\ AnyDue ~> ~AnyDue

\* C33 witness: a dirty hidden chart was made visible with no callback
\* pending, and the command requested one.
C33_Witness ==
  /\ last.type = "set-visibility"
  /\ last.arg = TRUE
  /\ ~last.sched
  /\ Due(last.id)
  /\ rafPending = 1

\* ------------------------------------------------------- abandoned renders
\* C34: a frame callback clears the dirty flag of a chart only if it
\* submitted GPU commands for that chart in the same callback; a chart whose
\* render was abandoned (no series, or no current texture) stays dirty.
C34_ClearedOnlyIfSubmitted ==
  [][ last'.type = "frame" =>
        \A id \in DOMAIN charts :
          (charts[id].dirty /\ ~charts'[id].dirty)
            => Renders(submitted', id) > 0 ]_vars

\* ------------------------------------------------- who requests a callback
\* the commands whose handler sets dirty flags
MarksDirty ==
  {"theme", "register-chart", "set-point-size", "set-max-samples",
   "set-style", "update-series", "view-transform", "resize",
   "batch-view-transform", "sync-view"}

\* the charts that are dirty after command l and that l addresses
Marked(l) ==
  {id \in DOMAIN charts :
     /\ charts[id].dirty
     /\ \/ l.type \in {"theme", "sync-view"}
        \/ l.type = "batch-view-transform" /\ id \in l.was
        \/ l.type \notin {"theme", "sync-view", "batch-view-transform"}
             /\ id = l.id}

VisibleMarked(l) == \E id \in Marked(l) : charts[id].visible

\* C35 as stated: a command that marks charts dirty requests a frame
\* callback only if one of the charts it marked is visible; a
\* batch-view-transform whose targets are all invisible or unknown requests
\* none.
C35_RequestOnlyIfVisible ==
  [][ (last'.type \in MarksDirty /\ rafPending' > rafPending)
        => VisibleMarked(last)' ]_vars

\* C35 amended: every dirty-marking command but batch-view-transform
\* requests a callback only if a chart it marked is visible;
\* batch-view-transform leaves a callback pending whatever its targets,
\* requesting one if none was scheduled.
C35_BatchAlwaysRequests ==
  [][ last'.type \in MarksDirty =>
        IF last'.type = "batch-view-transform"
        THEN /\ renderScheduled'
             /\ rafPending' = IF renderScheduled THEN rafPending
                              ELSE rafPending + 1
        ELSE rafPending' > rafPending => VisibleMarked(last)' ]_vars

\* C35 witness: a batch-view-transform none of whose targets is a visible
\* chart has requested a callback.
C35_Witness ==
  /\ last.type = "batch-view-transform"
  /\ ~last.sched
  /\ ~VisibleMarked(last)
  /\ rafPending = 1

\* ------------------------------------------------------------------ leaks
\* C36: after any sequence of commands, every buffer and texture created
\* and not destroyed is held by a chart of the registry.
C36_NoLeak == live \subseteq AllRefs(charts)

\* ------------------------------------------------- what a frame is bound to
\* the bind groups of non-empty series i of chart c exist and were built
\* against the chart's current texture view and Series-Info buffer, and its
\* aggregation buffer, if it has one, holds one record per pixel column
BoundToCurrent(c, i) ==
  LET s == c.series[i]
  IN /\ s.computeBindGroup # << >>
     /\ s.computeBindGroup[5] = c.seriesStorageBuffer
     /\ IF c.type = "scatter"
          THEN s.computeBindGroup[4] = c.outputTextureView
          ELSE /\ s.renderBindGroup # << >>
               /\ s.renderBindGroup[3] = c.seriesStorageBuffer
               /\ s.computeBindGroup[4] = s.lineBuffer
               /\ s.renderBindGroup[2] = s.lineBuffer
               /\ s.lineCols = c.width

\* C37: every frame encoded refers to resources that exist and are not
\* destroyed only; the off-screen texture has the chart's width and height;
\* every non-empty series has its bind groups, built against the current
\* texture view and Series-Info buffer, and each aggregation buffer holds
\* exactly `width` records.
C37_FrameBoundToCurrent ==
  \A i \in DOMAIN submitted :
    LET f == submitted[i]
        c == charts[f.id]
    IN /\ Executes(f)
       /\ c.texSize = <<c.width, c.height>>
       /\ f.target = c.outputTextureView
       /\ \A k \in DOMAIN c.series :
            c.series[k].pointCount # 0 => BoundToCurrent(c, k)

\* ------------------------------------------------------- concurrent inits
\* C38: whatever init commands arrive, one of them while an earlier one
\* awaits its adapter or device included, at most one GPU device (with its
\* pipelines) is ever created, and a ready event is emitted for the first
\* one only.
C38_OneDevice ==
  /\ device <= 1
  /\ \A k \in DOMAIN emitted :
       emitted[k].type = "gpu-ready" => emitted[k].data = 1

\* ------------------------------------------------------ starting the page
\* C39: every call of ChartManager.init() is fulfilled with true only
\* after an engine has reported ready, and at most one worker is ever
\* created, also when init() is called while an earlier call is pending.
C39_InitOnce ==
  /\ Len(manager.workers) <= 1
  /\ \A k \in DOMAIN manager.inits :
       manager.inits[k].state = "true" => manager.inits[k].ready

\* --------------------------------------------------------- series upload
\* JavaScript values as the page hands them over: a number, NaN, or the
\* undefined read past the end of an array
Num(v) == <<"num", v>>
NaN == <<"nan", 0>>
Undef == <<"undefined", 0>>
\* 2^24, up to which every integer is a single-precision float
Float32Exact == 16777216

XValues == {Num(0), Num(1), Num(Float32Exact + 1), NaN}
YValues == {Num(0), Num(1)}
SeqsUpTo(S, n) == UNION {[1..k -> S] : k \in 0..n}
\* the ChartSeries of a call: y may be one shorter or one longer than x
SeriesValues ==
  {sd \in {[x |-> xs, y |-> ys] : xs \in SeqsUpTo(XValues, MaxLen),
                                  ys \in SeqsUpTo(YValues, MaxLen)} :
     Len(sd.y) \in {Len(sd.x) - 1, Len(sd.x), Len(sd.x) + 1}}
ShortSeries == {sd \in SeriesValues : Len(sd.x) <= 1 /\ Len(sd.y) <= 1}
SeriesLists ==
  {<< >>} \cup {<<sd>> : sd \in SeriesValues}
          \cup {<<sd, td>> : sd \in ShortSeries, td \in ShortSeries}

\* Math.fround of an integer 0 <= v < 2^25: above 2^24 the floats are the
\* even integers and a tie goes to the one with an even mantissa
Fround(v) ==
  IF v <= Float32Exact \/ v % 2 = 0 THEN v
  ELSE IF (v - 1) % 4 = 0 THEN v - 1 ELSE v + 1

\* the element new Float32Array(array) stores for element a (part_002
\* 565-566): undefined and NaN become NaN
Float32(a) == IF a[1] = "num" THEN Num(Fround(a[2])) ELSE NaN

\* array[i] for i from 1
At(array, i) == IF i \in DOMAIN array THEN array[i] ELSE Undef

\* the orders of 1..n
Perms(n) == {p \in [1..n -> 1..n] : \A i, j \in 1..n : i # j => p[i] # p[j]}

\* indices left in place
SortOutcomesUnsorted(xs) == {[i \in 1..Len(xs) |-> i]}

\* indices.sort((a, b) => s.x[a] - s.x[b]) (part_002 517-518), indices
\* from 1: Array.prototype.sort is stable, and with a NaN among the
\* differences the comparator is not consistent and the order is
\* implementation-defined
SortOutcomes(xs) ==
  IF \E i \in DOMAIN xs : xs[i] = NaN THEN Perms(Len(xs))
  ELSE {p \in Perms(Len(xs)) :
          \A i \in 1..(Len(xs) - 1) :
            \/ xs[p[i]][2] < xs[p[i + 1]][2]
            \/ xs[p[i]][2] = xs[p[i + 1]][2] /\ p[i] < p[i + 1]}

\* the entry of chart.series for series sd sorted in order p (part_002
\* 513-526); with no x the arrays are empty
sortSeries(sd, p) ==
  [rawX |-> [i \in 1..Len(sd.x) |-> sd.x[p[i]]],
   rawY |-> [i \in 1..Len(sd.x) |-> At(sd.y, p[i])]]

\* the values chart.series may take for the series of a call
StoredOutcomes(series) ==
  {[k \in DOMAIN series |-> sortSeries(series[k], ps[k])] :
     ps \in {f \in [DOMAIN series -> UNION {Perms(n) : n \in 0..MaxLen}] :
               \A k \in DOMAIN series : f[k] \in SortOutcomes(series[k].x)}}

\* minX = Infinity, maxX = -Infinity: no number was seen
NoExtent == << >>

\* the smallest and greatest number of a set of values, as the loop of
\* part_002 534-541 leaves them: a comparison with NaN or undefined is
\* false
Extent(values) ==
  LET nums == {a[2] : a \in {b \in values : b[1] = "num"}}
  IN IF nums = {} THEN NoExtent
     ELSE <<CHOOSE v \in nums : \A w \in nums : v <= w,
            CHOOSE v \in nums : \A w \in nums : w <= v>>

\* bounds (part_002 528-557) in twentieths, for a chart without
\* config.defaultBounds: the extent widened by pct twentieths of its span,
\* or by 1 when the span is 0; the infinite extent stays as it is
Padded(ext, pct) ==
  IF ext = NoExtent THEN ext
  ELSE LET pad == IF ext[2] = ext[1] THEN 20 ELSE pct * (ext[2] - ext[1])
       IN <<20 * ext[1] - pad, 20 * ext[2] + pad>>

globalBounds(stored) ==
  [x |-> Padded(Extent(UNION {Range(stored[k].rawX) : k \in DOMAIN stored}), 1),
   y |-> Padded(Extent(UNION {Range(stored[k].rawY) : k \in DOMAIN stored}), 2)]

\* ChartManager.updateSeries (part_002 506-583): it returns at once for an
\* unknown chart, without worker or for no series; otherwise it posts the
\* sorted series as single-precision arrays with the bounds, then the view
\* (sendViewTransform, 710-719)
managerUpdateSeries(m, id, series, stored) ==
  LET call == [NoCall EXCEPT !.name = "updateSeries", !.id = id,
                             !.arg = series, !.returned = TRUE]
  IN IF id \notin DOMAIN m.charts \/ ~m.worker \/ Len(series) = 0
     THEN [m EXCEPT !.op = call]
     ELSE [m EXCEPT
             !.op = [call EXCEPT
                       !.posted =
                          <<[type |-> "update-series", id |-> id,
                             series |->
                               [k \in DOMAIN stored |->
                                  [dataX |-> [i \in DOMAIN stored[k].rawX |->
                                                Float32(stored[k].rawX[i])],
                                   dataY |-> [i \in DOMAIN stored[k].rawY |->
                                                Float32(stored[k].rawY[i])]]],
                             bounds |-> globalBounds(stored)],
                            Msg("view-transform", id)>>]]

ManagerUpdateSeries(id, series) ==
  /\ \E stored \in StoredOutcomes(series) :
       manager' = managerUpdateSeries(manager, id, series, stored)
  /\ UNCHANGED workerVars

\* the manager once its engine has reported ready
Started ==
  [Unstarted EXCEPT
     !.worker = TRUE, !.workers = <<"ready">>,
     !.inits = <<[state |-> "true", worker |-> 1, ready |-> TRUE]>>,
     !.op = [NoCall EXCEPT !.name = "onmessage", !.id = "gpu-ready",
                           !.returned = TRUE]]

\* a call of updateSeries about to be made
UploadCall(id, series) ==
  [NoCall EXCEPT !.name = "call", !.id = id, !.arg = series]

\* the page before init, or after init and one create without series,
\* with the call the page is about to make
UploadInit ==
  /\ Constructed /\ env = "ok" /\ initCount = 0
  /\ inits = << >>
  /\ frameCount = 0
  /\ isDark = FALSE
  /\ last = Cmd("start", "", << >>, << >>)
  /\ emitted = << >>
  /\ submitted = << >>
  /\ cmds = 0
  /\ storageX = << >>
  /\ storageY = << >>
  /\ invoked = Idle
  /\ \E m \in {Unstarted, managerCreate(Started, FALSE, FALSE)},
        id \in {ChartId(0), ChartId(1)}, series \in SeriesLists :
       manager = [m EXCEPT !.op = UploadCall(id, series)]

UploadNext ==
  /\ manager.op.name = "call"
  /\ ManagerUpdateSeries(manager.op.id, manager.op.arg)

UploadSpec == UploadInit /\ [][UploadNext]_vars

\* a <= b as numbers
Lte(a, b) == a[1] = "num" /\ b[1] = "num" /\ a[2] <= b[2]
NonDecreasing(xs) == \A i, j \in DOMAIN xs : i < j => Lte(xs[i], xs[j])

\* the series sent by the last call, if it sent any
SentSeries ==
  IF manager.op.name = "updateSeries" /\ manager.op.posted # << >>
  THEN manager.op.posted[1].series ELSE << >>

\* C31 as stated: every series is sent with X non-decreasing and X and Y of
\* one length, and the sent (x, y) pairs are a permutation of the pairs of
\* the call.
C31_SortedPermutation ==
  \A k \in DOMAIN SentSeries :
    LET sent == SentSeries[k]
        sd == manager.op.arg[k]
    IN /\ Len(sent.dataX) = Len(sent.dataY)
       /\ NonDecreasing(sent.dataX)
       /\ \E p \in Perms(Len(sd.x)) :
            /\ sent.dataX = [i \in DOMAIN sd.x |-> sd.x[p[i]]]
            /\ sent.dataY = [i \in DOMAIN sd.x |-> At(sd.y, p[i])]

\* C31 amended: every series is sent with X and Y of the length of its x;
\* the sent pairs are a permutation of the pairs of the call rounded to
\* single precision (a missing y being sent as NaN); X is non-decreasing
\* if no x of the series is NaN.
C31_SortedRounded ==
  \A k \in DOMAIN SentSeries :
    LET sent == SentSeries[k]
        sd == manager.op.arg[k]
    IN /\ Len(sent.dataX) = Len(sd.x)
       /\ Len(sent.dataY) = Len(sd.x)
       /\ \E p \in Perms(Len(sd.x)) :
            /\ sent.dataX = [i \in DOMAIN sd.x |-> Float32(sd.x[p[i]])]
            /\ sent.dataY = [i \in DOMAIN sd.x |-> Float32(At(sd.y, p[i]))]
       /\ (\A i \in DOMAIN sd.x : sd.x[i] # NaN) => NonDecreasing(sent.dataX)

\* C31 witness: a series given in descending order of x, one of them not a
\* single-precision float, was sent in ascending order with its y values.
C31_Witness ==
  /\ manager.op.name = "updateSeries"
  /\ manager.op.arg = <<[x |-> <<Num(Float32Exact + 1), Num(0)>>,
                         y |-> <<Num(1), Num(0)>>]>>
  /\ SentSeries = <<[dataX |-> <<Num(0), Num(Float32Exact)>>,
                     dataY |-> <<Num(0), Num(1)>>]>>

\* ------------------------------------------------- the view on both sides
\* ChartManager.MIN_ZOOM and MAX_ZOOM (part_002 133-134), in tenths as
\* ZoomMin and ZoomMax
MIN_ZOOM == 1
MAX_ZOOM == 100000000
\* view messages posted and not yet handled by the engine
MaxPosted == 2
\* the factors a gesture scales a zoom by, as <<numerator, denominator>>
ZoomFactors == {<<10000, 1>>}
\* the pans a gesture may leave: they depend on the pointer position
PanValues == {0, 1}

\* Math.max(MIN_ZOOM, Math.min(MAX_ZOOM, z * scale)) for scale = f[1]/f[2]
scaleZoom(z, f) ==
  IF z > MAX_ZOOM \div f[1] THEN MAX_ZOOM
  ELSE Clamp(MIN_ZOOM, MAX_ZOOM, (z * f[1]) \div f[2])

ViewMsg(id, v) == [type |-> "view-transform", id |-> id, v |-> v]
BatchMsg(ids, v) == [type |-> "batch-view-transform", id |-> ids, v |-> v]

\* syncAllViews (part_002 721-742): every other chart takes the view of
\* source, and one batch-view-transform is posted if there is another
syncAllViews(m, source) ==
  LET others == DOMAIN m.views \ {source}
  IN [m EXCEPT
        !.views = [id \in DOMAIN @ |-> @[source]],
        !.outbox = IF others = {} THEN @
                   ELSE Append(@, BatchMsg(others, m.views[source]))]

\* sendView of the zoom plugin (zoom.ts 67-71) and the tail of a frame of
\* resetView (part_002 700-703), once chart id has view v
sendView(m, id, v) ==
  LET sent == [m EXCEPT !.views[id] = v,
                        !.outbox = Append(@, ViewMsg(id, v))]
  IN IF m.syncViews THEN syncAllViews(sent, id) ELSE sent

\* the views a gesture of the given kind may leave on view v: the wheel
\* scales one axis or both (zoom.ts 407-442), a pinch both (280-302), an
\* edge drag one (208-231), a drag pans (246-258)
Gestured(kind, v) ==
  LET pans(w) == {[w EXCEPT !.panX = px, !.panY = py] :
                    px \in PanValues, py \in PanValues}
      zx(f) == [v EXCEPT !.zoomX = scaleZoom(v.zoomX, f)]
      zy(f) == [v EXCEPT !.zoomY = scaleZoom(v.zoomY, f)]
      zxy(f) == [zx(f) EXCEPT !.zoomY = scaleZoom(v.zoomY, f)]
  IN IF kind = "pan" THEN pans(v)
     ELSE UNION {pans(w) :
                   w \in IF kind = "pinch" THEN {zxy(f) : f \in ZoomFactors}
                         ELSE IF kind = "edge-scale"
                           THEN {zx(f) : f \in ZoomFactors}
                                  \cup {zy(f) : f \in ZoomFactors}
                         ELSE {zx(f) : f \in ZoomFactors}
                                \cup {zy(f) : f \in ZoomFactors}
                                \cup {zxy(f) : f \in ZoomFactors}}

Room(n) == Len(manager.outbox) + n <= MaxPosted

\* a wheel, pinch, drag or edge-drag event on chart id
Gesture(kind, id) ==
  /\ id \in DOMAIN manager.views
  /\ Room(2)
  /\ \E v \in Gestured(kind, manager.views[id]) :
       manager' = sendView(manager, id, v)
  /\ UNCHANGED workerVars

\* a frame of the animation of resetView (part_002 690-706): the first
\* frame leaves the view where it was, the last one at the unit view
ResetViewFrame(id, final) ==
  /\ id \in DOMAIN manager.views
  /\ Room(2)
  /\ manager' = sendView(manager, id,
                         IF final THEN UnitView ELSE manager.views[id])
  /\ UNCHANGED workerVars

SyncAllViews(source) ==
  /\ source \in DOMAIN manager.views
  /\ Room(1)
  /\ manager' = syncAllViews(manager, source)
  /\ UNCHANGED workerVars

\* setSyncViews (part_002 652-654)
SetSyncViews(sync) ==
  /\ manager' = [manager EXCEPT !.syncViews = sync]
  /\ UNCHANGED workerVars

\* the engine handles the oldest view message: case "view-transform"
\* (gpu-worker.ts 1016-1026) or case "batch-view-transform" (1037-1052)
EngineReceives ==
  /\ manager.outbox # << >>
  /\ LET msg == Head(manager.outbox)
         zX == Clamp(ZoomMin, ZoomMax, msg.v.zoomX)
         zY == Clamp(ZoomMin, ZoomMax, msg.v.zoomY)
     IN /\ last' = Cmd(msg.type, msg.id, msg.v, << >>)
        /\ IF msg.type = "view-transform"
             THEN IF Known(msg.id)
                    THEN markDirty([charts EXCEPT
                                      ![msg.id].panX = msg.v.panX,
                                      ![msg.id].panY = msg.v.panY,
                                      ![msg.id].zoomX = zX,
                                      ![msg.id].zoomY = zY], msg.id)
                    ELSE UNCHANGED <<charts, renderScheduled, rafPending>>
             ELSE /\ charts' = [id \in DOMAIN charts |->
                                  IF id \in msg.id
                                  THEN batchApply(charts[id], msg.v, zX, zY)
                                  ELSE charts[id]]
                  /\ scheduleRender(TRUE)
  /\ manager' = [manager EXCEPT !.outbox = Tail(@)]
  /\ emitted' = << >>
  /\ submitted' = << >>
  /\ UNCHANGED <<InitVars, frameCount, isDark, surfaces, live, cmds,
                 storageX, storageY, invoked>>

\* the engine and the page after init and the creation of two charts, all
\* messages handled
ViewInit ==
  /\ Booted(<< <<ChartId(1), "line", UpdateB, TRUE>>,
               <<ChartId(2), "box", UpdateA, TRUE>> >>)
  /\ initCount = 1
  /\ inits = << >>
  /\ frameCount = 0
  /\ isDark = FALSE
  /\ last = Cmd("start", "", << >>, << >>)
  /\ emitted = << >>
  /\ submitted = << >>
  /\ cmds = 0
  /\ storageX = << >>
  /\ storageY = << >>
  /\ invoked = Idle
  /\ manager = managerCreate(managerCreate(Started, TRUE, FALSE), TRUE, FALSE)

ViewNext ==
  \/ \E kind \in {"wheel", "pinch", "pan", "edge-scale"},
        id \in {ChartId(1), ChartId(2)} : Gesture(kind, id)
  \/ \E id \in {ChartId(1), ChartId(2)}, final \in Bools :
       ResetViewFrame(id, final)
  \/ \E source \in {ChartId(1), ChartId(2)} : SyncAllViews(source)
  \/ \E sync \in Bools : SetSyncViews(sync)
  \/ EngineReceives

ViewSpec == ViewInit /\ [][ViewNext]_vars

\* C40: once every posted view message has been handled, the engine's
\* panX, panY, zoomX and zoomY of each chart equal the view the controller
\* holds for that chart.
C40_ViewsAgree ==
  manager.outbox = << >> =>
    \A id \in DOMAIN manager.views \cap DOMAIN charts :
      View(charts[id]) = <<manager.views[id].panX, manager.views[id].panY,
                           manager.views[id].zoomX, manager.views[id].zoomY>>

\* ------------------------------------------------ the zoom plugin's taps
\* Times are in units of 100 ms.  Date.now() and performance.now() are
\* read from one clock, which starts at Epoch.
Epoch == 100
\* how many times the clock advances
MaxTicks == 2
\* the calls of resetView after which no new pointer goes down
MaxResets == 1
LONG_PRESS_DURATION == 30
DoubleTapWindow == 3
Ticks == {2, LONG_PRESS_DURATION}
PointerIds == {1, 2}
\* the first pointer is a finger or the mouse, the second a finger
PointerTypes == [p \in PointerIds |->
                   IF p = 1 THEN {"touch", "mouse"} ELSE {"touch"}]
\* where on the element a pointer goes down: over the Y axis, over the X
\* axis, or elsewhere (zoom.ts 131-139)
Places == {"yAxis", "xAxis", "inside"}

\* the closure of install (zoom.ts 50-65, 345-346) with chart.dragging and
\* chart.momentum; `now` is the clock, `resets` the number of calls of
\* mgr.resetView; `clean` and `tap` follow the gesture: the touch in
\* progress is a single finger inside the plot that has not moved, and
\* the last pointer event was the release of such a touch at time tap.at,
\* before which resetView had been called tap.before times; tap.second
\* tells that the tap before it was released less than 300 ms earlier,
\* and tap.pairBefore is the number of calls before that release
Installed ==
  [pointers |-> << >>, dragging |-> FALSE, momentum |-> FALSE, vel |-> FALSE,
   lastTime |-> 0, longPressTimer |-> "null", timerDue |-> 0,
   isInspectMode |-> FALSE, longPressCancelled |-> FALSE,
   edgeScaleMode |-> "null", lastTap |-> 0,
   lastTapWasSinglePointer |-> FALSE,
   now |-> Epoch, ticks |-> 0, resets |-> 0, clean |-> FALSE, tap |-> << >>]

IsDown(t, pid) == \E i \in DOMAIN t.pointers : t.pointers[i].id = pid

\* the pointerdown listener (zoom.ts 110-186)
pointerDown(t, pid, type, place) ==
  LET pushed == [t EXCEPT !.momentum = FALSE,
                          !.pointers = Append(@, [id |-> pid, type |-> type]),
                          !.tap = << >>, !.clean = FALSE]
  IN IF Len(pushed.pointers) = 1
     THEN LET first == [pushed EXCEPT
                          !.dragging = TRUE, !.vel = FALSE,
                          !.lastTime = t.now, !.isInspectMode = FALSE,
                          !.longPressCancelled = FALSE,
                          !.edgeScaleMode = "null",
                          !.tap = t.tap,
                          !.clean = (type = "touch" /\ place = "inside")]
          IN IF type # "touch" THEN first
             ELSE IF place = "yAxis" THEN [first EXCEPT !.edgeScaleMode = "y"]
             ELSE IF place = "xAxis" THEN [first EXCEPT !.edgeScaleMode = "x"]
             ELSE [first EXCEPT !.longPressTimer = "armed",
                                !.timerDue = t.now + LONG_PRESS_DURATION]
     ELSE IF Len(pushed.pointers) = 2
       THEN [pushed EXCEPT
               !.longPressTimer = "null", !.isInspectMode = FALSE]
     ELSE pushed

\* the pointermove listener (zoom.ts 188-307) for a pointer that is down;
\* moved tells whether the pointer changed place.  The views it sends are
\* those of Gesture.
pointerMove(t, pid, moved) ==
  LET u == [t EXCEPT !.tap = IF moved THEN << >> ELSE @,
                     !.clean = t.clean /\ ~moved]
  IN IF Len(t.pointers) = 1 /\ t.dragging
     THEN LET c == IF t.longPressTimer # "null" /\ moved
                   THEN [u EXCEPT !.longPressTimer = "null",
                                  !.longPressCancelled = TRUE]
                   ELSE u
          IN IF c.isInspectMode \/ c.edgeScaleMode # "null" THEN c
             ELSE [c EXCEPT
                     !.vel = IF t.now - t.lastTime < 1 THEN @ \/ moved ELSE @,
                     !.lastTime = t.now]
     ELSE u

\* endPointer (zoom.ts 309-334)
endPointer(t, pid) ==
  LET left == SelectSeq(t.pointers, LAMBDA q : q.id # pid)
      u == [t EXCEPT !.pointers = left, !.longPressTimer = "null"]
  IN IF Len(left) = 0
     THEN [u EXCEPT !.isInspectMode = FALSE, !.longPressCancelled = FALSE,
                    !.edgeScaleMode = "null", !.dragging = FALSE,
                    !.momentum = IF t.dragging /\ t.vel THEN TRUE ELSE @]
     ELSE u

\* the second pointerup listener (zoom.ts 347-386) for a pointer of the
\* given type
doubleTap(t, type) ==
  IF Len(t.pointers) = 1 /\ type = "touch"
  THEN IF t.edgeScaleMode = "null" /\ ~t.longPressCancelled
       THEN IF t.now - t.lastTap < DoubleTapWindow
               /\ t.lastTapWasSinglePointer
            THEN [t EXCEPT !.resets = @ + 1, !.lastTap = 0,
                           !.lastTapWasSinglePointer = FALSE]
            ELSE [t EXCEPT !.lastTap = t.now,
                           !.lastTapWasSinglePointer = TRUE]
       ELSE [t EXCEPT !.lastTapWasSinglePointer = FALSE]
  ELSE IF type # "touch"
    THEN IF t.now - t.lastTap < DoubleTapWindow
         THEN [t EXCEPT !.resets = @ + 1, !.lastTap = 0]
         ELSE [t EXCEPT !.lastTap = t.now]
  ELSE [t EXCEPT !.lastTapWasSinglePointer = FALSE]

\* a pointerup event: its listeners run in the order of their
\* registration, endPointer (336) before the double-tap listener (347)
pointerUp(t, pid) ==
  LET idx == CHOOSE i \in DOMAIN t.pointers : t.pointers[i].id = pid
      ended == doubleTap(endPointer(t, pid), t.pointers[idx].type)
      second == t.tap # << >> /\ t.now - t.tap.at < DoubleTapWindow
  IN [ended EXCEPT
        !.clean = FALSE,
        !.tap = IF t.clean /\ Len(t.pointers) = 1
                THEN [at |-> t.now, before |-> t.resets, second |-> second,
                      pairBefore |-> IF second THEN t.tap.before
                                     ELSE t.resets]
                ELSE << >>]

Touch(f(_)) ==
  /\ manager.touch # << >>
  /\ manager' = [manager EXCEPT !.touch = f(@)]
  /\ UNCHANGED workerVars

PointerDown(pid, type, place) ==
  /\ manager.touch # << >>
  /\ ~IsDown(manager.touch, pid)
  /\ manager.touch.resets < MaxResets
  /\ Touch(LAMBDA t : pointerDown(t, pid, type, place))

PointerMove(pid, moved) ==
  /\ manager.touch # << >>
  /\ IsDown(manager.touch, pid)
  /\ Touch(LAMBDA t : pointerMove(t, pid, moved))

PointerUp(pid) ==
  /\ manager.touch # << >>
  /\ IsDown(manager.touch, pid)
  /\ Touch(LAMBDA t : pointerUp(t, pid))

\* a pointercancel event runs endPointer alone (zoom.ts 337-339)
PointerCancel(pid) ==
  /\ manager.touch # << >>
  /\ IsDown(manager.touch, pid)
  /\ Touch(LAMBDA t : [endPointer(t, pid) EXCEPT !.clean = FALSE,
                                                 !.tap = << >>])

\* the callback of the long-press timer (zoom.ts 150-155)
LongPress ==
  /\ manager.touch # << >>
  /\ manager.touch.longPressTimer = "armed"
  /\ manager.touch.now >= manager.touch.timerDue
  /\ Touch(LAMBDA t : IF t.longPressCancelled
                       THEN [t EXCEPT !.longPressTimer = "fired"]
                       ELSE [t EXCEPT !.longPressTimer = "fired",
                                      !.isInspectMode = TRUE,
                                      !.dragging = FALSE])

\* time passes; a timer that is due runs first
Tick(d) ==
  /\ manager.touch # << >>
  /\ manager.touch.ticks < MaxTicks
  /\ ~(manager.touch.longPressTimer = "armed"
         /\ manager.touch.now >= manager.touch.timerDue)
  /\ Touch(LAMBDA t : [t EXCEPT !.now = @ + d, !.ticks = @ + 1])

\* the page with one chart on which the zoom plugin is installed
TapInit ==
  /\ Constructed /\ env = "ok" /\ initCount = 0
  /\ inits = << >>
  /\ frameCount = 0
  /\ isDark = FALSE
  /\ last = Cmd("start", "", << >>, << >>)
  /\ emitted = << >>
  /\ submitted = << >>
  /\ cmds = 0
  /\ storageX = << >>
  /\ storageY = << >>
  /\ invoked = Idle
  /\ manager =
       [managerCreate([Started EXCEPT !.globalPlugins = <<"zoom">>],
                      FALSE, FALSE)
          EXCEPT !.touch = Installed]

TapNext ==
  \/ \E pid \in PointerIds, place \in Places :
       \E type \in PointerTypes[pid] : PointerDown(pid, type, place)
  \/ \E pid \in PointerIds, moved \in Bools : PointerMove(pid, moved)
  \/ \E pid \in PointerIds : PointerUp(pid)
  \/ \E pid \in PointerIds : PointerCancel(pid)
  \/ LongPress
  \/ \E d \in Ticks : Tick(d)

TapSpec == TapInit /\ [][TapNext]_vars

\* C32: when a single-finger touch tap (down and up inside the plot, no
\* movement, no second pointer) is released less than 300 ms after the
\* release of the tap before it, resetView has been called exactly once
\* over the two releases.
C32_DoubleTapResetsOnce ==
  (manager.touch # << >> /\ manager.touch.tap # << >>
     /\ manager.touch.tap.second)
    => manager.touch.resets = manager.touch.tap.pairBefore + 1

====
